---- MODULE Spec2Model ----
(***************************************************************************)
(* EditorKit: the StatePath state tree with its EventManager listener      *)
(* trie (StateNode.h), the EventBus (KEventBus.h) and the ActionSystem     *)
(* pipeline (ActionSystem.h).                                              *)
(*                                                                         *)
(* Strings of the program (paths) are sequences of one-character strings,  *)
(* so that splitPath, combinePath, string equality and the prefix test     *)
(* path.find(x) == 0 are computed as the code computes them.               *)
(***************************************************************************)
EXTENDS Integers, Sequences, FiniteSets, TLC

VARIABLES
    \* ---- StatePath ----
    root,             \* StatePath::root, the ObjectNode tree
    trie,             \* EventManager::root, as a map trie-node path -> listeners vector
    nextId,           \* EventManager::nextId
    listenerPaths,    \* EventManager::listenerPaths
    enableEvents,     \* StatePath::enableEvents
    treeOp,           \* the last StatePath call: its arguments and return value
    events,           \* PathEvents built by triggerEvent during the last call
    delivered,        \* callbacks invoked during the last call: <<listener id, event index>>
    \* ---- EventBus ----
    multicastEventHandlers,
    unicastEventHandlers,
    multicastOnceEventHandlers,
    unicastOnceEventHandlers,
    tokenToEventNameMap,
    nextToken,        \* the next fresh EventID
    busOp,            \* the last EventBus call: its arguments and its result
    invoked,          \* handler tokens invoked by the last Publish, in order
    calls,            \* per once-subscribed token, the deliveries made to its handler so far
    gone,             \* tokens given to Unsubscribe or evicted by SubscribeUnicast
    lastUnicast,      \* per key, the token of the latest SubscribeUnicast
    \* ---- ActionSystem ----
    allowOverload,    \* template parameter AllowOverload
    actions,          \* ActionSystem::actions_
    handleToActionMap,
    nextHandleId,
    globalCompletionListeners,
    nextGlobalListenerId,
    actOp,            \* the last ActionSystem call: its arguments and its ActionResult
    trace,            \* handlers invoked by the last Execute, in order: <<stage, handle id>>
    globalSeen,       \* global listeners invoked by the last Execute: <<id, key, result>>
    \* ---- StatePath, its nodes as objects in memory ----
    heap,             \* the nodes allocated, by address, and the last call made on them
    \* ---- StaticString ----
    pool,             \* StaticString::StringPool: stringToId, idToString, nextId, mutex
    threads,          \* per thread, its place in getIdForString, its string and its newId
    interned          \* the results of the calls that returned: <<string, id>>

treeVars == <<root, trie, nextId, listenerPaths, enableEvents, treeOp, events, delivered>>
busVars == <<multicastEventHandlers, unicastEventHandlers, multicastOnceEventHandlers,
             unicastOnceEventHandlers, tokenToEventNameMap, nextToken, busOp, invoked, calls,
             gone, lastUnicast>>
actVars == <<allowOverload, actions, handleToActionMap, nextHandleId,
             globalCompletionListeners, nextGlobalListenerId, actOp, trace, globalSeen>>
heapVars == <<heap>>
poolVars == <<pool, threads, interned>>
vars == <<treeVars, busVars, actVars, heapVars, poolVars>>

(***************************************************************************)
(* Bounds and input sets                                                   *)
(***************************************************************************)
\* listeners registered with the EventManager
MaxListeners == 2

\* the paths the tree operations are called with: "", "a", "b", "a/b" and
\* the spelling "a//b" of a/b
TreePaths == { <<>>, <<"a">>, <<"b">>, <<"a", "/", "b">>,
               <<"a", "/", "/", "b">> }

\* the values a leaf is set to
Values == {1, 2}

\* depth of the tree that moves may build
MaxDepth == 2

\* subscriptions made on the bus
MaxTokens == 2

\* invocations counted per once-subscription
CallCap == 2

\* the event keys subscribed and published
BusKeys == {"k1"}

\* handlers and global listeners registered with the ActionSystem
MaxHandlers == 3

ActionKeys == {"k1"}

\* the key no handler is registered under
UnknownKey == "k0"

IntT == [base |-> "int", const |-> FALSE, ref |-> ""]

\* parameter lists of the handlers: (int)
HandlerArgs == { <<IntT>> }

\* argument lists of Execute: (42), (), (x) for an int variable x
ExecuteArgs == { <<[base |-> "int", const |-> FALSE, cat |-> "rvalue"]>>,
                 <<>>,
                 <<[base |-> "int", const |-> FALSE, cat |-> "lvalue"]>> }

ListenerTypes == {"TriggerListener", "ValidationListener", "CompletionListener"}

HandlerTypes == ListenerTypes \cup {"Validator", "SequentialProcessor", "FinalProcessor"}

\* what a handler of the type does when called: "ok" (it returns; a validator
\* returns true), "reject" (a validator returns false), "throw" (it throws a
\* std::exception) or "throwOther" (it throws something else, such as an int).
\* The listeners of the pipeline stages return.
Behaviours(type) ==
    IF type = "Validator" THEN {"ok", "reject", "throw", "throwOther"}
    ELSE IF type \in {"SequentialProcessor", "FinalProcessor"} THEN {"ok", "throw", "throwOther"}
    ELSE {"ok"}

\* parameter type lists of the handlers subscribed: (int)
BusHandlerTypes == { <<"int">> }

\* type lists of the arguments published: none, (int)
BusTypes == { <<>>, <<"int">> }

(***************************************************************************)
(* Strings and paths                                                       *)
(***************************************************************************)
\* std::string::find(x) == 0
StartsWith(s, x) == Len(x) <= Len(s) /\ SubSeq(s, 1, Len(x)) = x

RECURSIVE splitFrom(_, _, _)
splitFrom(path, i, part) ==
    IF i > Len(path)
    THEN (IF part = <<>> THEN <<>> ELSE <<part>>)
    ELSE IF path[i] = "/"
         THEN (IF part = <<>> THEN <<>> ELSE <<part>>) \o splitFrom(path, i + 1, <<>>)
         ELSE splitFrom(path, i + 1, Append(part, path[i]))

\* the non-empty parts of path between '/' characters
splitPath(path) == splitFrom(path, 1, <<>>)

combinePath(base, relative) ==
    IF base = <<>> THEN relative
    ELSE IF relative = <<>> THEN base
    ELSE base \o <<"/">> \o relative

Front(s) == SubSeq(s, 1, Len(s) - 1)

Last(s) == s[Len(s)]

IsPrefix(s, t) == Len(s) <= Len(t) /\ SubSeq(t, 1, Len(s)) = s

(***************************************************************************)
(* Nodes. Every node is a record of one shape; a leaf has no children and  *)
(* no absolute path, an ObjectNode has no value.                           *)
(***************************************************************************)
NoChildren == <<>>

NullNode == [type |-> "NULL", value |-> 0, absolutePath |-> <<>>, children |-> NoChildren]

LeafNode(kind, v) == [type |-> kind, value |-> v, absolutePath |-> <<>>, children |-> NoChildren]

ObjectNode(path) == [type |-> "OBJECT", value |-> 0, absolutePath |-> path, children |-> NoChildren]

getType(node) == IF node.type = "NULL" THEN "EMPTY" ELSE node.type

getChild(obj, name) ==
    IF name \in DOMAIN obj.children THEN obj.children[name] ELSE NullNode

hasChild(obj, name) == name \in DOMAIN obj.children

\* addChild by std::map::insert: a child already under the name stays
addChildKeepsOld(obj, name, node) ==
    IF name \in DOMAIN obj.children THEN obj
    ELSE [obj EXCEPT !.children =
             [n \in (DOMAIN obj.children) \cup {name} |->
                 IF n = name THEN node ELSE obj.children[n]]]

\* addChild that clears the map before it puts node in
addChildAlone(obj, name, node) ==
    [obj EXCEPT !.children = [n \in {name} |-> node]]

\* the old child of that name, if any, is deleted and the slot holds node
addChild(obj, name, node) ==
    [obj EXCEPT !.children =
        [n \in (DOMAIN obj.children) \cup {name} |->
            IF n = name THEN node ELSE obj.children[n]]]

\* removeChild that hands out the child and leaves its entry in the map
removeChildKeepsEntry(obj, name) == obj

removeChild(obj, name) ==
    [obj EXCEPT !.children = [n \in (DOMAIN obj.children) \ {name} |-> obj.children[n]]]

\* the ObjectNode reached from obj through parts, NullNode when a part is
\* missing or is no ObjectNode (the loop of getParentAndNameNoCreate)
RECURSIVE walkNoCreate(_, _)
walkNoCreate(obj, parts) ==
    IF parts = <<>> THEN obj
    ELSE LET node == getChild(obj, parts[1]) IN
         IF node.type # "OBJECT" THEN NullNode
         ELSE walkNoCreate(node, Tail(parts))

\* <<parent, name>>; the parent is NullNode when the path has no parts or
\* an intermediate part does not lead to an ObjectNode
getParentAndNameNoCreate(r, path) ==
    LET parts == splitPath(path) IN
    IF parts = <<>> THEN <<NullNode, <<>> >>
    ELSE LET parent == walkNoCreate(r, Front(parts)) IN
         IF parent.type = "NULL" THEN <<NullNode, <<>> >>
         ELSE <<parent, Last(parts)>>

getNode(r, path) ==
    LET pn == getParentAndNameNoCreate(r, path) IN
    IF pn[1].type # "NULL" /\ pn[2] # <<>> THEN getChild(pn[1], pn[2]) ELSE NullNode

hasNode(r, path) ==
    LET pn == getParentAndNameNoCreate(r, path) IN
    IF pn[1].type # "NULL" /\ pn[2] # <<>> THEN hasChild(pn[1], pn[2]) ELSE FALSE

getNodeType(r, path) == getType(getNode(r, path))

\* getTypedValue: <<found, value>>
getTypedValue(r, path, kind) ==
    LET node == getNode(r, path) IN
    IF node.type = kind THEN <<TRUE, node.value>> ELSE <<FALSE, 0>>

\* the loop of getParentAndName: obj with ObjectNode intermediates along
\* parts created where missing and put in the place of non-Object children
RECURSIVE walkCreate(_, _)
walkCreate(obj, parts) ==
    IF parts = <<>> THEN obj
    ELSE LET node == getChild(obj, parts[1]) IN
         IF node.type # "OBJECT"
         THEN addChild(obj, parts[1],
                  walkCreate(ObjectNode(combinePath(obj.absolutePath, parts[1])), Tail(parts)))
         ELSE addChild(obj, parts[1], walkCreate(node, Tail(parts)))

\* the tree after getParentAndName(path) made the parent of path
getParentAndName(r, path) ==
    LET parts == splitPath(path) IN
    IF parts = <<>> THEN r ELSE walkCreate(r, Front(parts))

\* obj with f applied to the ObjectNode reached through parts (which exists)
RECURSIVE atParent(_, _, _, _)
atParent(obj, parts, name, node) ==
    IF parts = <<>> THEN
        (IF node.type = "NULL" THEN removeChild(obj, name) ELSE addChild(obj, name, node))
    ELSE addChild(obj, parts[1], atParent(getChild(obj, parts[1]), Tail(parts), name, node))

\* parent->addChild(name, node) for the parent of path
putChildAt(r, path, node) ==
    LET parts == splitPath(path) IN atParent(r, Front(parts), Last(parts), node)

\* parent->removeChild(name) for the parent of path
removeChildAt(r, path) ==
    LET parts == splitPath(path) IN atParent(r, Front(parts), Last(parts), NullNode)

(***************************************************************************)
(* EventManager: the listener trie. A trie node is named by the parts that *)
(* lead to it; nodes are created by addListener and never removed.         *)
(***************************************************************************)
ListenerInfo(id, path, granularity, eventType) ==
    [id |-> id, path |-> path, granularity |-> granularity, eventType |-> eventType]

RECURSIVE joinParts(_)
\* parentPath += (i > 0 ? "/" : "") + parts[i]
joinParts(parts) ==
    IF parts = <<>> THEN <<>>
    ELSE IF Len(parts) = 1 THEN parts[1]
    ELSE parts[1] \o <<"/">> \o joinParts(Tail(parts))

idsOf(ls) == {ls[i].id : i \in 1..Len(ls)}

\* EventTrieNode::getCurrentListeners of the node named by parts, <<>> when
\* the walk from the root breaks off before it
listenersAt(t, parts) == IF parts \in DOMAIN t THEN t[parts] ELSE <<>>

RECURSIVE pushMatchingTwice(_, _, _, _, _)
\* pushMatching without the look into addedIds
pushMatchingTwice(result, ls, step, path, parentPath) ==
    IF ls = <<>> THEN result
    ELSE LET l == ls[1]
             ok == CASE step = 1 ->
                          \/ l.granularity = "NODE" /\ l.path = path
                          \/ l.granularity = "ALL_CHILDREN" /\ StartsWith(path, l.path)
                     [] step = 2 ->
                          l.granularity = "DIRECT_CHILD" /\ l.path = parentPath
                     [] OTHER ->
                          l.granularity = "ALL_CHILDREN" /\ StartsWith(path, l.path)
         IN pushMatchingTwice(IF ok THEN Append(result, l) ELSE result,
                              Tail(ls), step, path, parentPath)

RECURSIVE pushMatching(_, _, _, _, _)
\* result.push_back for the listeners of ls, in order, that pass the test of
\* the given step and are not yet in addedIds
pushMatching(result, ls, step, path, parentPath) ==
    IF ls = <<>> THEN result
    ELSE LET l == ls[1]
             ok == CASE step = 1 ->
                          \/ l.granularity = "NODE" /\ l.path = path
                          \/ l.granularity = "ALL_CHILDREN" /\ StartsWith(path, l.path)
                     [] step = 2 ->
                          l.granularity = "DIRECT_CHILD" /\ l.path = parentPath
                     [] OTHER ->
                          l.granularity = "ALL_CHILDREN" /\ StartsWith(path, l.path)
         IN pushMatching(
                IF ok /\ l.id \notin idsOf(result) THEN Append(result, l) ELSE result,
                Tail(ls), step, path, parentPath)

ofType(ls, eventType) == SelectSeq(ls, LAMBDA l : l.eventType = eventType)

RECURSIVE ancestorWalk(_, _, _, _, _, _)
\* step 3 of findListeners: the trie nodes of parts[1..1], parts[1..2], ...
ancestorWalk(t, result, parts, i, path, eventType) ==
    IF i > Len(parts) \/ SubSeq(parts, 1, i) \notin DOMAIN t THEN result
    ELSE ancestorWalk(t,
            pushMatching(result, ofType(t[SubSeq(parts, 1, i)], eventType), 3, path, <<>>),
            parts, i + 1, path, eventType)

\* findListeners that looks for DIRECT_CHILD listeners at the node of the
\* path in the place of the node of its parent
findListenersAtNode(t, path, eventType) ==
    LET parts == splitPath(path)
        r1 == pushMatching(<<>>, ofType(listenersAt(t, parts), eventType), 1, path, <<>>)
        r2 == pushMatching(r1, ofType(listenersAt(t, parts), eventType), 2, path, path)
    IN ancestorWalk(t, r2, parts, 1, path, eventType)

\* findListeners without its first step, the listeners of the exact node
findListenersFromParent(t, path, eventType) ==
    LET parts == splitPath(path)
        parentPath == joinParts(Front(parts))
        r2 == IF Len(parts) > 0
              THEN pushMatching(<<>>, ofType(listenersAt(t, splitPath(parentPath)), eventType),
                                2, path, parentPath)
              ELSE <<>>
    IN ancestorWalk(t, r2, parts, 1, path, eventType)

findListeners(t, path, eventType) ==
    LET parts == splitPath(path)
        r1 == pushMatching(<<>>, ofType(listenersAt(t, parts), eventType), 1, path, <<>>)
        parentPath == joinParts(Front(parts))
        r2 == IF Len(parts) > 0
              THEN pushMatching(r1, ofType(listenersAt(t, splitPath(parentPath)), eventType),
                                2, path, parentPath)
              ELSE r1
    IN ancestorWalk(t, r2, parts, 1, path, eventType)

RECURSIVE withTrieNodes(_, _, _)
\* getOrCreateChild along parts
withTrieNodes(t, parts, i) ==
    IF i > Len(parts) THEN t
    ELSE LET p == SubSeq(parts, 1, i) IN
         withTrieNodes(IF p \in DOMAIN t THEN t ELSE (p :> <<>>) @@ t, parts, i + 1)

PathEvent(type, path, relatedPath, node) ==
    [type |-> type, path |-> path, relatedPath |-> relatedPath, node |-> node,
     nodeType |-> getType(node)]

\* triggerEvent that does not look at enableEvents
triggerEventAlways(type, path, relatedPath, node) ==
    LET ls == findListeners(trie, path, type) IN
    << <<PathEvent(type, path, relatedPath, node)>>,
       [i \in 1..Len(ls) |-> <<ls[i].id, 1>>] >>

\* triggerEvent: <<events built, callbacks invoked>>
triggerEvent(type, path, relatedPath, node) ==
    IF ~enableEvents THEN << <<>>, <<>> >>
    ELSE LET ls == findListeners(trie, path, type) IN
         << <<PathEvent(type, path, relatedPath, node)>>,
            [i \in 1..Len(ls) |-> <<ls[i].id, 1>>] >>

\* the record of a StatePath call; prior and priorParent are the types the
\* tree held at path and at the parent of path when the call was made; before
\* fault tells that the call ended the process by a memory fault; before
\* is the tree a move was called on, and first tells of the call before a
\* move(b, a) when that was a successful move(a, b)
TreeOp(op, path, to, kind, value, ok) ==
    [op |-> op, path |-> path, to |-> to, kind |-> kind, value |-> value, ok |-> ok,
     prior |-> getNodeType(root, path),
     priorParent |-> getNodeType(root, joinParts(Front(splitPath(path)))),
     fault |-> FALSE,
     before |-> IF op = "move" THEN root ELSE NullNode,
     first |-> IF /\ op = "move" /\ treeOp.op = "move" /\ treeOp.ok
                  /\ splitPath(path) = splitPath(treeOp.to)
                  /\ splitPath(to) = splitPath(treeOp.path)
               THEN [moved |-> TRUE, path |-> treeOp.path, to |-> treeOp.to,
                     ok |-> treeOp.ok, before |-> treeOp.before]
               ELSE [moved |-> FALSE, path |-> <<>>, to |-> <<>>, ok |-> FALSE,
                     before |-> NullNode]]

(***************************************************************************)
(* StatePath operations                                                    *)
(***************************************************************************)
\* the setters with the event chosen by the node found alone: ADD whenever a
\* new node is put in
setValueAddsOnReplace(kind, path, value) ==
    LET parts == splitPath(path)
    IN IF parts = <<>>
       THEN /\ treeOp' = TreeOp("set", path, <<>>, kind, value, FALSE)
            /\ events' = <<>>
            /\ delivered' = <<>>
            /\ UNCHANGED root
       ELSE LET r1 == getParentAndName(root, path)
                oldNode == getNode(r1, path)
                r2 == IF oldNode.type = kind
                      THEN putChildAt(r1, path, [oldNode EXCEPT !.value = value])
                      ELSE putChildAt(r1, path, LeafNode(kind, value))
                type == IF oldNode.type = kind THEN "UPDATE" ELSE "ADD"
                ev == triggerEvent(type, path, <<>>, getNode(r2, path))
            IN /\ root' = r2
               /\ treeOp' = TreeOp("set", path, <<>>, kind, value, TRUE)
               /\ events' = ev[1]
               /\ delivered' = ev[2]

\* setInt, setFloat, setBool, setPointer, setString: the five functions are
\* the same code for the five leaf node classes, kind names the class
setValue(kind, path, value) ==
    LET exists == hasNode(root, path)
        parts == splitPath(path)
    IN IF parts = <<>>
       THEN \* parent is null: "Invalid path", nothing else happens
            /\ treeOp' = TreeOp("set", path, <<>>, kind, value, FALSE)
            /\ events' = <<>>
            /\ delivered' = <<>>
            /\ UNCHANGED root
       ELSE LET r1 == getParentAndName(root, path)
                oldNode == getNode(r1, path)
                r2 == IF oldNode.type = kind
                      THEN putChildAt(r1, path, [oldNode EXCEPT !.value = value])
                      ELSE putChildAt(r1, path, LeafNode(kind, value))
                type == IF oldNode.type = kind THEN "UPDATE"
                        ELSE IF exists THEN "UPDATE" ELSE "ADD"
                ev == triggerEvent(type, path, <<>>, getNode(r2, path))
            IN /\ root' = r2
               /\ treeOp' = TreeOp("set", path, <<>>, kind, value, TRUE)
               /\ events' = ev[1]
               /\ delivered' = ev[2]

setInt(path, value) ==
    /\ setValue("INT", path, value)
    /\ UNCHANGED <<trie, nextId, listenerPaths, enableEvents, busVars, actVars, heapVars, poolVars>>

setFloat(path, value) ==
    /\ setValue("FLOAT", path, value)
    /\ UNCHANGED <<trie, nextId, listenerPaths, enableEvents, busVars, actVars, heapVars, poolVars>>

setBool(path, value) ==
    /\ setValue("BOOL", path, value)
    /\ UNCHANGED <<trie, nextId, listenerPaths, enableEvents, busVars, actVars, heapVars, poolVars>>

setPointer(path, value) ==
    /\ setValue("POINTER", path, value)
    /\ UNCHANGED <<trie, nextId, listenerPaths, enableEvents, busVars, actVars, heapVars, poolVars>>

setString(path, value) ==
    /\ setValue("STRING", path, value)
    /\ UNCHANGED <<trie, nextId, listenerPaths, enableEvents, busVars, actVars, heapVars, poolVars>>

\* setValueNoCreate that leaves out the check of the node's type: a node of
\* another class at path takes the value too
setValueNoCreateAnyKind(kind, path, value) ==
    LET pn == getParentAndNameNoCreate(root, path)
        node == IF pn[1].type # "NULL" /\ pn[2] # <<>>
                THEN getChild(pn[1], pn[2]) ELSE NullNode
    IN IF node.type \in {"NULL", "OBJECT"}
       THEN /\ treeOp' = TreeOp("trySet", path, <<>>, kind, value, FALSE)
            /\ events' = <<>>
            /\ delivered' = <<>>
            /\ UNCHANGED root
       ELSE LET r2 == putChildAt(root, path, [node EXCEPT !.value = value])
                ev == triggerEvent("UPDATE", path, <<>>, getNode(r2, path))
            IN /\ root' = r2
               /\ treeOp' = TreeOp("trySet", path, <<>>, kind, value, TRUE)
               /\ events' = ev[1]
               /\ delivered' = ev[2]

\* setValueNoCreate: the parent is looked up without creating anything; with
\* no parent, no node under the name or a node of another class the error
\* callback is called and false returned; else the node takes the value and
\* UPDATE is triggered
setValueNoCreate(kind, path, value) ==
    LET pn == getParentAndNameNoCreate(root, path)
        node == IF pn[1].type # "NULL" /\ pn[2] # <<>>
                THEN getChild(pn[1], pn[2]) ELSE NullNode
    IN IF node.type # kind
       THEN /\ treeOp' = TreeOp("trySet", path, <<>>, kind, value, FALSE)
            /\ events' = <<>>
            /\ delivered' = <<>>
            /\ UNCHANGED root
       ELSE LET r2 == putChildAt(root, path, [node EXCEPT !.value = value])
                ev == triggerEvent("UPDATE", path, <<>>, getNode(r2, path))
            IN /\ root' = r2
               /\ treeOp' = TreeOp("trySet", path, <<>>, kind, value, TRUE)
               /\ events' = ev[1]
               /\ delivered' = ev[2]

TrySetIntValue(path, value) ==
    /\ setValueNoCreate("INT", path, value)
    /\ UNCHANGED <<trie, nextId, listenerPaths, enableEvents, busVars, actVars, heapVars, poolVars>>

TrySetStringValue(path, value) ==
    /\ setValueNoCreate("STRING", path, value)
    /\ UNCHANGED <<trie, nextId, listenerPaths, enableEvents, busVars, actVars, heapVars, poolVars>>

\* setObject: an ObjectNode at path stays; anything else there is replaced by
\* a new ObjectNode, which is given the path string as passed
setObject(path) ==
    LET exists == hasNode(root, path)
        parts == splitPath(path)
    IN /\ IF parts = <<>>
          THEN /\ treeOp' = TreeOp("setObject", path, <<>>, "OBJECT", 0, FALSE)
               /\ events' = <<>>
               /\ delivered' = <<>>
               /\ UNCHANGED root
          ELSE LET r1 == getParentAndName(root, path)
                   oldNode == getNode(r1, path)
                   r2 == IF oldNode.type = "OBJECT" THEN r1
                         ELSE putChildAt(r1, path, ObjectNode(path))
                   type == IF oldNode.type = "OBJECT" THEN "UPDATE"
                           ELSE IF exists THEN "UPDATE" ELSE "ADD"
                   ev == triggerEvent(type, path, <<>>, getNode(r2, path))
               IN /\ root' = r2
                  /\ treeOp' = TreeOp("setObject", path, <<>>, "OBJECT", 0, TRUE)
                  /\ events' = ev[1]
                  /\ delivered' = ev[2]
       /\ UNCHANGED <<trie, nextId, listenerPaths, enableEvents, busVars, actVars, heapVars, poolVars>>

\* setNode(path, node) for a leaf node built by the caller. When a node is at
\* path, addChild deletes it and setNode deletes it again after the event:
\* the second delete is undefined, the call returns or the process ends by a
\* memory fault
setNode(path, kind, value) ==
    LET exists == hasNode(root, path)
        parts == splitPath(path)
    IN /\ IF parts = <<>>
          THEN \* the node is deleted, "Invalid path"
               /\ treeOp' = TreeOp("setNode", path, <<>>, kind, value, FALSE)
               /\ events' = <<>>
               /\ delivered' = <<>>
               /\ UNCHANGED root
          ELSE LET r1 == getParentAndName(root, path)
                   oldNode == getNode(r1, path)
                   r2 == putChildAt(r1, path, LeafNode(kind, value))
                   type == IF oldNode.type = kind THEN "UPDATE"
                           ELSE IF exists THEN "UPDATE" ELSE "ADD"
                   ev == triggerEvent(type, path, <<>>, getNode(r2, path))
               IN /\ root' = r2
                  /\ events' = ev[1]
                  /\ delivered' = ev[2]
                  /\ \E fault \in (IF oldNode.type = "NULL" THEN {FALSE} ELSE BOOLEAN) :
                        treeOp' = [TreeOp("setNode", path, <<>>, kind, value, TRUE)
                                      EXCEPT !.fault = fault]
       /\ UNCHANGED <<trie, nextId, listenerPaths, enableEvents, busVars, actVars, heapVars, poolVars>>

\* removeNode that looks for the node with the walk that creates the parents
removeNodeByCreatingWalk(path) ==
    LET r1 == getParentAndName(root, path)
        node == getNode(r1, path)
        ev == triggerEvent("REMOVE", path, <<>>, node)
    IN /\ IF node.type # "NULL"
          THEN /\ root' = removeChildAt(r1, path)
               /\ treeOp' = TreeOp("remove", path, <<>>, "EMPTY", 0, TRUE)
               /\ events' = ev[1]
               /\ delivered' = ev[2]
          ELSE /\ root' = r1
               /\ treeOp' = TreeOp("remove", path, <<>>, "EMPTY", 0, FALSE)
               /\ events' = <<>>
               /\ delivered' = <<>>
       /\ UNCHANGED <<trie, nextId, listenerPaths, enableEvents, busVars, actVars, heapVars, poolVars>>

removeNode(path) ==
    LET node == getNode(root, path)
        ev == triggerEvent("REMOVE", path, <<>>, node)
    IN /\ IF node.type # "NULL"
          THEN /\ root' = removeChildAt(root, path)
               /\ treeOp' = TreeOp("remove", path, <<>>, "EMPTY", 0, TRUE)
               /\ events' = ev[1]
               /\ delivered' = ev[2]
          ELSE /\ treeOp' = TreeOp("remove", path, <<>>, "EMPTY", 0, FALSE)
               /\ events' = <<>>
               /\ delivered' = <<>>
               /\ UNCHANGED root
       /\ UNCHANGED <<trie, nextId, listenerPaths, enableEvents, busVars, actVars, heapVars, poolVars>>

moveNode(fromPath, toPath) ==
    LET node == getNode(root, fromPath)
    IN /\ IF node.type = "NULL"
          THEN \* no source parent, or no such child: return false
               /\ treeOp' = TreeOp("move", fromPath, toPath, "EMPTY", 0, FALSE)
               /\ events' = <<>>
               /\ delivered' = <<>>
               /\ UNCHANGED root
          ELSE LET r1 == removeChildAt(root, fromPath) IN
               IF splitPath(toPath) = <<>>
               THEN \* no target parent: the node is put back, return false
                    /\ root' = putChildAt(r1, fromPath, node)
                    /\ treeOp' = TreeOp("move", fromPath, toPath, "EMPTY", 0, FALSE)
                    /\ events' = <<>>
                    /\ delivered' = <<>>
               ELSE LET r2 == getParentAndName(r1, toPath)
                        ev == triggerEvent("MOVE", fromPath, toPath, node)
                    IN /\ root' = putChildAt(r2, toPath, node)
                       /\ treeOp' = TreeOp("move", fromPath, toPath, "EMPTY", 0, TRUE)
                       /\ events' = ev[1]
                       /\ delivered' = ev[2]
       /\ UNCHANGED <<trie, nextId, listenerPaths, enableEvents, busVars, actVars, heapVars, poolVars>>

addEventListener(path, granularity, eventType) ==
    /\ nextId <= MaxListeners
    /\ LET parts == splitPath(path)
           t == withTrieNodes(trie, parts, 1)
       IN trie' = [t EXCEPT ![parts] =
                      Append(@, ListenerInfo(nextId, path, granularity, eventType))]
    /\ listenerPaths' = (nextId :> path) @@ listenerPaths
    /\ nextId' = nextId + 1
    /\ treeOp' = TreeOp("addListener", path, <<>>, "EMPTY", nextId, TRUE)
    /\ events' = <<>>
    /\ delivered' = <<>>
    /\ UNCHANGED <<root, enableEvents, busVars, actVars, heapVars, poolVars>>

removeEventListener(id) ==
    /\ IF id \in DOMAIN listenerPaths
       THEN LET parts == splitPath(listenerPaths[id]) IN
            /\ listenerPaths' = [i \in (DOMAIN listenerPaths) \ {id} |-> listenerPaths[i]]
            /\ trie' = [trie EXCEPT ![parts] = SelectSeq(@, LAMBDA l : l.id # id)]
            /\ treeOp' = TreeOp("removeListener", <<>>, <<>>, "EMPTY", id, TRUE)
       ELSE /\ treeOp' = TreeOp("removeListener", <<>>, <<>>, "EMPTY", id, FALSE)
            /\ UNCHANGED <<trie, listenerPaths>>
    /\ events' = <<>>
    /\ delivered' = <<>>
    /\ UNCHANGED <<root, nextId, enableEvents, busVars, actVars, heapVars, poolVars>>

\* setInt with a listener whose callback calls removeEventListener(removed):
\* triggerEvent calls the copies of the listeners that findListeners has
\* returned, one after the other; remover is called before removed
setIntRemoving(path, value, remover, removed) ==
    /\ setValue("INT", path, value)
    /\ \E i, j \in DOMAIN delivered' :
          i < j /\ delivered'[i][1] = remover /\ delivered'[j][1] = removed
    /\ LET parts == splitPath(listenerPaths[removed]) IN
       /\ listenerPaths' = [i \in (DOMAIN listenerPaths) \ {removed} |-> listenerPaths[i]]
       /\ trie' = [trie EXCEPT ![parts] = SelectSeq(@, LAMBDA l : l.id # removed)]
    /\ UNCHANGED <<nextId, enableEvents, busVars, actVars, heapVars, poolVars>>

\* setEventEnabled: the flag is stored, nothing is triggered
setEventEnabled(enabled) ==
    /\ enableEvents' = enabled
    /\ treeOp' = TreeOp("setEventEnabled", <<>>, <<>>, "EMPTY", 0, enabled)
    /\ events' = <<>>
    /\ delivered' = <<>>
    /\ UNCHANGED <<root, trie, nextId, listenerPaths, busVars, actVars, heapVars, poolVars>>

RECURSIVE Depth(_)
\* the number of levels below node
Depth(node) ==
    IF DOMAIN node.children = {} THEN 0
    ELSE 1 + CHOOSE d \in {Depth(node.children[n]) : n \in DOMAIN node.children} :
                 \A n \in DOMAIN node.children : Depth(node.children[n]) <= d

InitTree ==
    /\ root = ObjectNode(<<>>)
    /\ trie = (<<>> :> <<>>)
    /\ nextId = 1
    /\ listenerPaths = <<>>
    /\ enableEvents = TRUE
    /\ treeOp = TreeOp("init", <<>>, <<>>, "EMPTY", 0, TRUE)
    /\ events = <<>>
    /\ delivered = <<>>

(***************************************************************************)
(* EventBus. The five maps of the bus are handled as one record so that    *)
(* PublishImpl can call Unsubscribe. An EventID is a fresh 128-bit random  *)
(* number in the code; here the EventIDs are numbered in order of issue.   *)
(***************************************************************************)
Without(f, k) == [x \in (DOMAIN f) \ {k} |-> f[x]]

Lookup(f, k, default) == IF k \in DOMAIN f THEN f[k] ELSE default

\* GetTemplateArgsInfo: "void" for no parameter, else the type names in order
GetTemplateArgsInfo(types) == IF types = <<>> THEN <<"void">> ELSE types

\* EventFunctionImpl<Args...>: token_, mode_, argTypes_ and sizeof...(Args);
\* behaviour is what the wrapped function does when called: "ok" (returns)
\* or "throw" (throws)
EventFunctionImpl(token, types, mode, behaviour) ==
    [token |-> token, mode |-> mode, argTypes |-> GetTemplateArgsInfo(types),
     argCount |-> Len(types), behaviour |-> behaviour]

Bus == [mh |-> multicastEventHandlers, uh |-> unicastEventHandlers,
        mo |-> multicastOnceEventHandlers, uo |-> unicastOnceEventHandlers,
        tk |-> tokenToEventNameMap]

tokensOf(hs) == [i \in 1..Len(hs) |-> hs[i].token]

InSeq(x, seq) == \E i \in 1..Len(seq) : seq[i] = x

\* Unsubscribe that leaves the EventID in tokenToEventNameMap_
UnsubscribeKeepsToken(b, token) ==
    IF token \notin DOMAIN b.tk THEN <<b, FALSE>>
    ELSE LET eventName == b.tk[token]
             mh1 == IF eventName \in DOMAIN b.mh /\ InSeq(token, tokensOf(b.mh[eventName]))
                    THEN LET handlers == SelectSeq(b.mh[eventName], LAMBDA h : h.token # token)
                         IN IF handlers = <<>> THEN Without(b.mh, eventName)
                            ELSE [b.mh EXCEPT ![eventName] = handlers]
                    ELSE b.mh
             uh1 == IF eventName \in DOMAIN b.uh /\ b.uh[eventName].token = token
                    THEN Without(b.uh, eventName) ELSE b.uh
         IN << [mh |-> mh1, uh |-> uh1, mo |-> b.mo, uo |-> b.uo, tk |-> b.tk], TRUE >>

\* EventBus::Unsubscribe on the maps b: <<maps after, return value>>
Unsubscribe(b, token) ==
    IF token \notin DOMAIN b.tk THEN <<b, FALSE>>
    ELSE LET eventName == b.tk[token]
             mh1 == IF eventName \in DOMAIN b.mh /\ InSeq(token, tokensOf(b.mh[eventName]))
                    THEN LET handlers == SelectSeq(b.mh[eventName], LAMBDA h : h.token # token)
                         IN IF handlers = <<>> THEN Without(b.mh, eventName)
                            ELSE [b.mh EXCEPT ![eventName] = handlers]
                    ELSE b.mh
             uh1 == IF eventName \in DOMAIN b.uh /\ b.uh[eventName].token = token
                    THEN Without(b.uh, eventName) ELSE b.uh
             mo1 == IF eventName \in DOMAIN b.mo /\ InSeq(token, b.mo[eventName])
                    THEN LET onceTokens == SelectSeq(b.mo[eventName], LAMBDA t : t # token)
                         IN IF onceTokens = <<>> THEN Without(b.mo, eventName)
                            ELSE [b.mo EXCEPT ![eventName] = onceTokens]
                    ELSE b.mo
             uo1 == IF eventName \in DOMAIN b.uo /\ b.uo[eventName] = token
                    THEN Without(b.uo, eventName) ELSE b.uo
         IN << [mh |-> mh1, uh |-> uh1, mo |-> mo1, uo |-> uo1, tk |-> Without(b.tk, token)],
               TRUE >>

RECURSIVE unsubscribeAll(_, _)
\* for (token : tokensToRemove) Unsubscribe(token)
unsubscribeAll(b, tokens) ==
    IF tokens = <<>> THEN b
    ELSE unsubscribeAll(Unsubscribe(b, tokens[1])[1], Tail(tokens))

\* SubscribeDetailed with emplace in the place of the assignment to the
\* unicast slot: a handler already in the slot stays
SubscribeDetailedKeepsFirst(b, eventName, types, once, mode, token, behaviour) ==
    LET delegate == EventFunctionImpl(token, types, mode, behaviour) IN
    IF mode = "Unicast"
    THEN LET had == eventName \in DOMAIN b.uh
             uo1 == IF had THEN Without(b.uo, eventName) ELSE b.uo
             tk1 == IF had THEN Without(b.tk, b.uh[eventName].token) ELSE b.tk
         IN [b EXCEPT !.uh = IF had THEN b.uh ELSE (eventName :> delegate) @@ b.uh,
                      !.uo = IF once THEN (eventName :> token) @@ uo1 ELSE uo1,
                      !.tk = (token :> eventName) @@ tk1]
    ELSE [b EXCEPT !.mh = (eventName :> Append(Lookup(b.mh, eventName, <<>>), delegate)) @@ b.mh,
                   !.mo = IF once
                          THEN (eventName :> Append(Lookup(b.mo, eventName, <<>>), token)) @@ b.mo
                          ELSE b.mo,
                   !.tk = (token :> eventName) @@ b.tk]

\* EventBus::SubscribeDetailed on the maps b, with the new EventID token
SubscribeDetailed(b, eventName, types, once, mode, token, behaviour) ==
    LET delegate == EventFunctionImpl(token, types, mode, behaviour) IN
    IF mode = "Unicast"
    THEN LET had == eventName \in DOMAIN b.uh
             uo1 == IF had THEN Without(b.uo, eventName) ELSE b.uo
             tk1 == IF had THEN Without(b.tk, b.uh[eventName].token) ELSE b.tk
         IN [b EXCEPT !.uh = (eventName :> delegate) @@ b.uh,
                      !.uo = IF once THEN (eventName :> token) @@ uo1 ELSE uo1,
                      !.tk = (token :> eventName) @@ tk1]
    ELSE [b EXCEPT !.mh = (eventName :> Append(Lookup(b.mh, eventName, <<>>), delegate)) @@ b.mh,
                   !.mo = IF once
                          THEN (eventName :> Append(Lookup(b.mo, eventName, <<>>), token)) @@ b.mo
                          ELSE b.mo,
                   !.tk = (token :> eventName) @@ b.tk]

\* PublishResult whose success flag stays at the constructor's default
PublishResultDefaultSuccess(success, total, successful, failed, mode) ==
    [success |-> TRUE, totalSubscribers |-> total, successfulExecutions |-> successful,
     failedExecutions |-> failed, publishMode |-> mode]

PublishResult(success, total, successful, failed, mode) ==
    [success |-> success, totalSubscribers |-> total, successfulExecutions |-> successful,
     failedExecutions |-> failed, publishMode |-> mode]

\* a handler takes the published arguments iff count and type names agree
Matches(h, types) == h.argCount = Len(types) /\ h.argTypes = GetTemplateArgsInfo(types)

\* the index of the first handler of hs that throws, 0 if none does
FirstThrow(hs) ==
    IF \A i \in 1..Len(hs) : hs[i].behaviour # "throw" THEN 0
    ELSE CHOOSE i \in 1..Len(hs) :
            /\ hs[i].behaviour = "throw"
            /\ \A j \in 1..(i - 1) : hs[j].behaviour # "throw"

\* EventBus::PublishImpl on the maps b:
\* [b |-> maps after, result |-> PublishResult, invoked |-> tokens invoked in order,
\*  returned |-> FALSE when what a handler throws leaves PublishImpl]
\* Nothing in PublishImpl catches: a handler that throws ends the call at once,
\* before the once-subscriptions that were delivered are unsubscribed.
PublishImpl(b, eventName, mode, types) ==
    IF mode = "Unicast"
    THEN IF eventName \notin DOMAIN b.uh
         THEN [b |-> b, result |-> PublishResult(FALSE, 0, 0, 0, mode), invoked |-> <<>>,
               returned |-> TRUE]
         ELSE LET h == b.uh[eventName] IN
              IF ~Matches(h, types)
              THEN [b |-> b, result |-> PublishResult(FALSE, 1, 0, 1, mode), invoked |-> <<>>,
                    returned |-> TRUE]
              ELSE IF h.behaviour = "throw"
              THEN [b |-> b, result |-> PublishResult(FALSE, 0, 0, 0, mode),
                    invoked |-> <<h.token>>, returned |-> FALSE]
              ELSE [b |-> IF eventName \in DOMAIN b.uo
                          THEN Unsubscribe(b, b.uo[eventName])[1] ELSE b,
                    result |-> PublishResult(TRUE, 1, 1, 0, mode),
                    invoked |-> <<h.token>>, returned |-> TRUE]
    ELSE IF eventName \notin DOMAIN b.mh
         THEN [b |-> b, result |-> PublishResult(FALSE, 0, 0, 0, mode), invoked |-> <<>>,
               returned |-> TRUE]
         ELSE LET handlers == b.mh[eventName]
                  ran == SelectSeq(handlers, LAMBDA h : Matches(h, types))
                  onceTokens == Lookup(b.mo, eventName, <<>>)
                  tokensToRemove == SelectSeq(tokensOf(ran), LAMBDA t : InSeq(t, onceTokens))
              IN IF FirstThrow(ran) > 0
                 THEN [b |-> b, result |-> PublishResult(FALSE, 0, 0, 0, mode),
                       invoked |-> tokensOf(SubSeq(ran, 1, FirstThrow(ran))),
                       returned |-> FALSE]
                 ELSE [b |-> unsubscribeAll(b, tokensToRemove),
                       result |-> PublishResult(Len(ran) > 0, Len(handlers), Len(ran),
                                                Len(handlers) - Len(ran), mode),
                       invoked |-> tokensOf(ran), returned |-> TRUE]

GetSubscriberCount(b, eventName) == Len(Lookup(b.mh, eventName, <<>>))

GetUnicastSubscriberCount(b, eventName) == IF eventName \in DOMAIN b.uh THEN 1 ELSE 0

\* HasSubscribers: the key has an entry in the multicast map and the vector
\* there is not empty
HasSubscribers(b, eventName) ==
    eventName \in DOMAIN b.mh /\ b.mh[eventName] # <<>>

\* HasUnicastSubscribers: the key has an entry in the unicast map
HasUnicastSubscribers(b, eventName) == eventName \in DOMAIN b.uh

\* HasEvent
HasEvent(b, eventName) == HasSubscribers(b, eventName) \/ HasUnicastSubscribers(b, eventName)

\* the record of an EventBus call; returned is FALSE when the call ended by
\* an exception, countBefore is the subscriber count of the key when it was made
BusOp(op, eventName, mode, types, token, result, countBefore, returned) ==
    [op |-> op, eventName |-> eventName, mode |-> mode, types |-> types, token |-> token,
     result |-> result, countBefore |-> countBefore, returned |-> returned]

NoResult == PublishResult(FALSE, 0, 0, 0, "Multicast")

SetBus(b) ==
    /\ multicastEventHandlers' = b.mh
    /\ unicastEventHandlers' = b.uh
    /\ multicastOnceEventHandlers' = b.mo
    /\ unicastOnceEventHandlers' = b.uo
    /\ tokenToEventNameMap' = b.tk

Count(b, eventName, mode) ==
    IF mode = "Unicast" THEN GetUnicastSubscriberCount(b, eventName)
    ELSE GetSubscriberCount(b, eventName)

SubscribeImpl(eventName, types, once, mode, behaviour) ==
    /\ nextToken <= MaxTokens
    /\ SetBus(SubscribeDetailed(Bus, eventName, types, once, mode, nextToken, behaviour))
    /\ nextToken' = nextToken + 1
    /\ busOp' = BusOp("subscribe", eventName, mode, types, nextToken, NoResult,
                      Count(Bus, eventName, mode), TRUE)
    /\ invoked' = <<>>
    /\ calls' = IF once THEN (nextToken :> 0) @@ calls ELSE calls
    /\ gone' = IF mode = "Unicast" /\ eventName \in DOMAIN unicastEventHandlers
               THEN gone \cup {unicastEventHandlers[eventName].token} ELSE gone
    /\ lastUnicast' = IF mode = "Unicast" THEN [lastUnicast EXCEPT ![eventName] = nextToken]
                      ELSE lastUnicast
    /\ UNCHANGED <<treeVars, actVars, heapVars, poolVars>>

Subscribe(eventName, types, once, behaviour) ==
    SubscribeImpl(eventName, types, once, "Multicast", behaviour)

SubscribeUnicast(eventName, types, once, behaviour) ==
    SubscribeImpl(eventName, types, once, "Unicast", behaviour)

\* Unsubscribe(token) for an EventID that Subscribe has returned
UnsubscribeCall(token) ==
    LET r == Unsubscribe(Bus, token) IN
    /\ token < nextToken
    /\ SetBus(r[1])
    /\ busOp' = BusOp("unsubscribe", "", "Multicast", <<>>, token,
                      PublishResult(r[2], 0, 0, 0, "Multicast"), 0, TRUE)
    /\ invoked' = <<>>
    /\ gone' = gone \cup {token}
    /\ UNCHANGED <<nextToken, calls, lastUnicast, treeVars, actVars, heapVars, poolVars>>

\* the handlers among those invoked that returned: all but a last one that threw
Returned(tokens, returned) == IF returned THEN tokens ELSE Front(tokens)

PublishCall(eventName, mode, types) ==
    LET r == PublishImpl(Bus, eventName, mode, types) IN
    /\ SetBus(r.b)
    /\ busOp' = BusOp("publish", eventName, mode, types, 0, r.result,
                      Count(Bus, eventName, mode), r.returned)
    /\ invoked' = r.invoked
    /\ calls' = [t \in DOMAIN calls |->
                    IF InSeq(t, Returned(r.invoked, r.returned)) /\ calls[t] < CallCap
                    THEN calls[t] + 1
                    ELSE calls[t]]
    /\ UNCHANGED <<nextToken, gone, lastUnicast, treeVars, actVars, heapVars, poolVars>>

Publish(eventName, types) == PublishCall(eventName, "Multicast", types)

PublishUnicast(eventName, types) == PublishCall(eventName, "Unicast", types)

\* Publish(eventName, args...) with a handler, of token remover, that calls
\* Unsubscribe(removed), on a key without once-subscriptions whose handlers
\* all take the arguments and return. The loop of PublishImpl walks the
\* vector that Unsubscribe erases from, up to the end it had when the loop
\* began: after the erase it calls the handlers that are left and then reads
\* the slot past them, a unique_ptr moved from (null) when removed was not
\* the last handler, a destroyed one when it was: the call ends by a memory
\* fault, or (stale) the handler deleted is called through the old pointer.
\* busOp: token is removed, returned is FALSE for the fault.
PublishRemoving(eventName, types, remover, removed, stale) ==
    /\ eventName \in DOMAIN multicastEventHandlers
    /\ eventName \notin DOMAIN multicastOnceEventHandlers
    /\ LET handlers == multicastEventHandlers[eventName]
           n == Len(handlers)
       IN /\ \A i \in 1..n : Matches(handlers[i], types) /\ handlers[i].behaviour = "ok"
          /\ \E i, j \in 1..n :
                /\ i < j
                /\ handlers[i].token = remover
                /\ handlers[j].token = removed
                /\ stale => j = n
                /\ LET left == SelectSeq(handlers, LAMBDA h : h.token # removed)
                       fault == ~stale
                   IN /\ invoked' = IF fault THEN tokensOf(left)
                                    ELSE Append(tokensOf(left), removed)
                      /\ busOp' = BusOp("publishRemoving", eventName, "Multicast", types,
                                        removed,
                                        IF fault THEN NoResult
                                        ELSE PublishResult(TRUE, n, n, 0, "Multicast"),
                                        n, ~fault)
    /\ SetBus(Unsubscribe(Bus, removed)[1])
    /\ gone' = gone \cup {removed}
    /\ UNCHANGED <<nextToken, calls, lastUnicast, treeVars, actVars, heapVars, poolVars>>

InitBus ==
    /\ multicastEventHandlers = <<>>
    /\ unicastEventHandlers = <<>>
    /\ multicastOnceEventHandlers = <<>>
    /\ unicastOnceEventHandlers = <<>>
    /\ tokenToEventNameMap = <<>>
    /\ nextToken = 1
    /\ busOp = BusOp("init", "", "Multicast", <<>>, 0, NoResult, 0, TRUE)
    /\ invoked = <<>>
    /\ calls = <<>>
    /\ gone = {}
    /\ lastUnicast = [k \in BusKeys |-> 0]

(***************************************************************************)
(* ActionSystem. A handler is what the program can see of it: its handle,  *)
(* its priority, and what its function does when it is called: "ok"        *)
(* (returns; a validator returns true), "reject" (a validator returns      *)
(* false) or "throw" (throws a std::exception).                            *)
(***************************************************************************)
\* type_check::get_type_name: typeid(T).name() of the type without its
\* reference (typeid drops const), then "&" or "&&" for a reference
get_type_name(T) == <<T.base, T.ref>>

\* get_template_args_info: "void" for no argument, else the names in order
get_template_args_info(types) ==
    IF types = <<>> THEN << <<"void", "">> >> ELSE [i \in 1..Len(types) |-> get_type_name(types[i])]

\* the Args... that Execute(key, Args&&... args) deduces: T& for an lvalue
\* argument of type T, T for an rvalue
Deduce(args) ==
    [i \in 1..Len(args) |->
        [base |-> args[i].base, const |-> args[i].const,
         ref |-> IF args[i].cat = "lvalue" THEN "&" ELSE ""]]

ActionHandle(id, actionKey, type) == [id |-> id, actionKey |-> actionKey, type |-> type]

Handler(handle, priority, behaviour) ==
    [handle |-> handle, priority |-> priority, behaviour |-> behaviour]

\* the orders std::sort may leave handlers in: a permutation in ascending
\* priority; std::sort is not stable, the order of equal priorities is any
SortPerms(handlers) ==
    { p \in [1..Len(handlers) -> 1..Len(handlers)] :
        /\ \A i, j \in 1..Len(handlers) : i # j => p[i] # p[j]
        /\ \A i, j \in 1..Len(handlers) : i < j =>
              handlers[p[i]].priority <= handlers[p[j]].priority }

SortByPriority(handlers) ==
    { [i \in 1..Len(handlers) |-> handlers[p[i]]] : p \in SortPerms(handlers) }

\* ActionProcessorWrapper<Args...> with its ActionProcessorContainer
ActionProcessorWrapper(types) ==
    [Args |-> types, argTypes |-> get_template_args_info(types), argCount |-> Len(types),
     validators |-> <<>>, sequentialProcessors |-> <<>>, finalProcessor |-> <<>>,
     triggerListeners |-> <<>>, validationListeners |-> <<>>, completionListeners |-> <<>>]

\* GetTotalHandlers that leaves the final processor out of the count
GetTotalHandlersWithoutFinal(w) ==
    Len(w.validators) + Len(w.sequentialProcessors)
    + Len(w.triggerListeners) + Len(w.validationListeners) + Len(w.completionListeners)

GetTotalHandlers(w) ==
    Len(w.validators) + Len(w.sequentialProcessors) + Len(w.finalProcessor)
    + Len(w.triggerListeners) + Len(w.validationListeners) + Len(w.completionListeners)

CheckArgsMatch(w, argTypes, argCount) == w.argTypes = argTypes /\ w.argCount = argCount

ActionResult ==
    [success |-> FALSE, validationPassed |-> FALSE, errorMessage |-> "",
     totalValidators |-> 0, passedValidators |-> 0, totalProcessors |-> 0,
     executedProcessors |-> 0, totalListeners |-> 0, executedListeners |-> 0]

\* the index of the first handler of hs that does not behave "ok", 0 if none
FirstNotOk(hs) ==
    IF \A i \in 1..Len(hs) : hs[i].behaviour = "ok" THEN 0
    ELSE CHOOSE i \in 1..Len(hs) :
            /\ hs[i].behaviour # "ok"
            /\ \A j \in 1..(i - 1) : hs[j].behaviour = "ok"

\* the index of the first handler of hs that throws what catch (const
\* std::exception&) does not catch, 0 if none
FirstEscape(hs) ==
    IF \A i \in 1..Len(hs) : hs[i].behaviour # "throwOther" THEN 0
    ELSE CHOOSE i \in 1..Len(hs) :
            /\ hs[i].behaviour = "throwOther"
            /\ \A j \in 1..(i - 1) : hs[j].behaviour # "throwOther"

\* the calls made to the handlers hs of a stage, in order
Calls(stage, hs) ==
    [i \in 1..Len(hs) |->
        [stage |-> stage, id |-> hs[i].handle.id, priority |-> hs[i].priority,
         behaviour |-> hs[i].behaviour]]

OkCount(hs) == Cardinality({i \in 1..Len(hs) : hs[i].behaviour = "ok"})

\* A stage takes and gives [result, trace, done, escaped]: the ActionResult
\* so far, the calls made so far, whether Execute has ended, and whether it
\* ended by an exception that left it.

\* a listener stage: every listener is called; a std::exception is caught,
\* not counted, and leaves its message
runListeners(st, stage, hs, message) ==
    LET e == FirstEscape(hs)
        ran == IF e > 0 THEN SubSeq(hs, 1, e) ELSE hs
    IN [result |-> [st.result EXCEPT
                       !.totalListeners = @ + Len(hs),
                       !.executedListeners = @ + OkCount(ran),
                       !.errorMessage = IF \E i \in 1..Len(ran) : ran[i].behaviour = "throw"
                                        THEN message ELSE @],
        trace |-> st.trace \o Calls(stage, ran),
        done |-> e > 0,
        escaped |-> e > 0]

TriggerListenersStage(c, st) ==
    runListeners(st, "TriggerListener", c.triggerListeners, "Trigger listener error")

ValidatorsStage(c, st) ==
    LET v == FirstNotOk(c.validators)
        r == [st.result EXCEPT !.totalValidators = Len(c.validators)]
    IN IF v > 0
       THEN [result |-> [r EXCEPT
                            !.passedValidators = v - 1,
                            !.validationPassed = FALSE,
                            !.errorMessage = IF c.validators[v].behaviour = "reject"
                                             THEN "Validation failed by" ELSE "Validator error"],
             trace |-> st.trace \o Calls("Validator", SubSeq(c.validators, 1, v)),
             done |-> TRUE,
             escaped |-> c.validators[v].behaviour = "throwOther"]
       ELSE [result |-> [r EXCEPT !.passedValidators = Len(c.validators),
                                  !.validationPassed = TRUE],
             trace |-> st.trace \o Calls("Validator", c.validators),
             done |-> FALSE,
             escaped |-> FALSE]

ValidationListenersStage(c, st) ==
    runListeners(st, "ValidationListener", c.validationListeners, "Validation listener error")

SequentialProcessorsStage(c, st) ==
    LET p == FirstNotOk(c.sequentialProcessors)
        r == [st.result EXCEPT !.totalProcessors = Len(c.sequentialProcessors)]
    IN IF p > 0
       THEN [result |-> [r EXCEPT !.executedProcessors = p - 1,
                                  !.errorMessage = "Sequential processor error",
                                  !.success = FALSE],
             trace |-> st.trace \o Calls("SequentialProcessor",
                                         SubSeq(c.sequentialProcessors, 1, p)),
             done |-> TRUE,
             escaped |-> c.sequentialProcessors[p].behaviour = "throwOther"]
       ELSE [result |-> [r EXCEPT !.executedProcessors = Len(c.sequentialProcessors)],
             trace |-> st.trace \o Calls("SequentialProcessor", c.sequentialProcessors),
             done |-> FALSE,
             escaped |-> FALSE]

\* the final processor counts in totalProcessors only when it returns
FinalProcessorStage(c, st) ==
    IF FirstNotOk(c.finalProcessor) > 0
    THEN [result |-> [st.result EXCEPT !.errorMessage = "Final processor error",
                                       !.success = FALSE],
          trace |-> st.trace \o Calls("FinalProcessor", c.finalProcessor),
          done |-> TRUE,
          escaped |-> c.finalProcessor[1].behaviour = "throwOther"]
    ELSE [result |-> IF c.finalProcessor # <<>>
                     THEN [st.result EXCEPT !.executedProcessors = @ + 1,
                                            !.totalProcessors = @ + 1]
                     ELSE st.result,
          trace |-> st.trace \o Calls("FinalProcessor", c.finalProcessor),
          done |-> FALSE,
          escaped |-> FALSE]

CompletionListenersStage(c, st) ==
    LET s == runListeners(st, "CompletionListener", c.completionListeners,
                          "Completion listener error")
    IN IF s.escaped THEN s ELSE [s EXCEPT !.result.success = TRUE, !.done = TRUE]

\* Execute with the validation listeners called before the validators
ContainerExecuteListenersFirst(c) ==
    LET s0 == [result |-> ActionResult, trace |-> <<>>, done |-> FALSE, escaped |-> FALSE]
        s1 == TriggerListenersStage(c, s0)
        s2 == IF s1.done THEN s1 ELSE ValidationListenersStage(c, s1)
        s3 == IF s2.done THEN s2 ELSE ValidatorsStage(c, s2)
        s4 == IF s3.done THEN s3 ELSE SequentialProcessorsStage(c, s3)
        s5 == IF s4.done THEN s4 ELSE FinalProcessorStage(c, s4)
    IN IF s5.done THEN s5 ELSE CompletionListenersStage(c, s5)

\* ActionProcessorContainer::Execute: the six stages in order, each reached
\* only when no stage before it has ended the call
ContainerExecute(c) ==
    LET s0 == [result |-> ActionResult, trace |-> <<>>, done |-> FALSE, escaped |-> FALSE]
        s1 == TriggerListenersStage(c, s0)
        s2 == IF s1.done THEN s1 ELSE ValidatorsStage(c, s1)
        s3 == IF s2.done THEN s2 ELSE ValidationListenersStage(c, s2)
        s4 == IF s3.done THEN s3 ELSE SequentialProcessorsStage(c, s3)
        s5 == IF s4.done THEN s4 ELSE FinalProcessorStage(c, s4)
    IN IF s5.done THEN s5 ELSE CompletionListenersStage(c, s5)

\* ActionProcessorWrapper::ExecuteWithForward on argPointers whose first
\* argCount entries are set: a container of no parameter runs; else
\* CheckArgTypes wants the first w.argCount pointers non-null, and the
\* container runs on what they point to
ExecuteWithForward(w, argCount) ==
    IF w.argCount = 0 THEN ContainerExecute(w)
    ELSE IF argCount < w.argCount
    THEN [result |-> [ActionResult EXCEPT
                         !.errorMessage = "Parameter type mismatch in execution"],
          trace |-> <<>>, done |-> TRUE, escaped |-> FALSE]
    ELSE ContainerExecute(w)

\* FindMatchingProcessor that takes the first wrapper of the key in overload mode too
FindMatchingProcessorFirst(overload, acts, actionKey, types) ==
    IF actionKey \notin DOMAIN acts \/ acts[actionKey] = <<>> THEN 0 ELSE 1

\* FindMatchingProcessor: the index in acts[actionKey] of the wrapper, 0 for nullptr
FindMatchingProcessor(overload, acts, actionKey, types) ==
    IF actionKey \notin DOMAIN acts THEN 0
    ELSE IF ~overload THEN 1
    ELSE LET ws == acts[actionKey]
             m == {i \in 1..Len(ws) :
                     CheckArgsMatch(ws[i], get_template_args_info(types), Len(types))}
         IN IF m = {} THEN 0 ELSE CHOOSE i \in m : \A j \in m : i <= j

\* NotifyGlobalListeners: the listeners are called in order with (actionKey,
\* result); a std::exception one throws is caught, anything else leaves the call.
\* The calls made: <<listener id, key passed, result passed>>
NotifyGlobalListeners(actionKey, result) ==
    LET e == FirstEscape(globalCompletionListeners)
        n == IF e > 0 THEN e ELSE Len(globalCompletionListeners)
    IN [i \in 1..n |-> <<globalCompletionListeners[i].id, actionKey, result>>]

\* the record of an ActionSystem call; ok tells whether a wrapper was found
\* (Execute), the registration did not throw (Add...) or a handler was removed
\* (RemoveHandler); returned is FALSE when an exception left Execute
ActOp(op, actionKey, types, id, ok, result, returned) ==
    [op |-> op, actionKey |-> actionKey, types |-> types, id |-> id, ok |-> ok,
     result |-> result, returned |-> returned,
     issued |-> IF op = "init" THEN {} ELSE actOp.issued \cup DOMAIN handleToActionMap]

Registered == (nextHandleId - 1) + (nextGlobalListenerId - 1)

\* the vector of the container that holds handlers of the type
VectorOf(type) ==
    CASE type = "Validator" -> "validators"
      [] type = "SequentialProcessor" -> "sequentialProcessors"
      [] type = "FinalProcessor" -> "finalProcessor"
      [] type = "TriggerListener" -> "triggerListeners"
      [] type = "ValidationListener" -> "validationListeners"
      [] type = "CompletionListener" -> "completionListeners"

\* the containers a wrapper may hold after AddValidator, AddSequentialProcessor,
\* SetFinalProcessor or AddListener of handler h: SetFinalProcessor replaces,
\* the others push_back and SortByPriority
AddToWrapper(w, type, h) ==
    IF type = "FinalProcessor" THEN { [w EXCEPT !.finalProcessor = <<h>>] }
    ELSE { [w EXCEPT ![VectorOf(type)] = sorted] :
             sorted \in SortByPriority(Append(w[VectorOf(type)], h)) }

\* GetOrCreateProcessor (overload mode): <<wrappers of the key, index of the wrapper>>;
\* a wrapper is reused when CheckArgsMatch holds and the dynamic_cast to
\* ActionProcessorWrapper<Args...> succeeds
GetOrCreateProcessor(acts, actionKey, types) ==
    LET ws == Lookup(acts, actionKey, <<>>)
        m == {i \in 1..Len(ws) :
                /\ CheckArgsMatch(ws[i], get_template_args_info(types), Len(types))
                /\ ws[i].Args = types}
    IN IF m = {} THEN <<Append(ws, ActionProcessorWrapper(types)), Len(ws) + 1>>
       ELSE <<ws, CHOOSE i \in m : \A j \in m : i <= j>>

\* GetOrCreateProcessorWithCheck that puts a new wrapper in the place of one
\* of another signature
GetOrCreateProcessorWithCheckReplaces(acts, actionKey, types) ==
    IF actionKey \notin DOMAIN acts THEN << <<ActionProcessorWrapper(types)>>, 1>>
    ELSE IF acts[actionKey][1].Args # types THEN << <<ActionProcessorWrapper(types)>>, 1>>
    ELSE <<acts[actionKey], 1>>

\* GetOrCreateProcessorWithCheck (non-overload mode): <<wrappers, index>>, index 0
\* when it throws std::runtime_error
GetOrCreateProcessorWithCheck(acts, actionKey, types) ==
    IF actionKey \notin DOMAIN acts THEN << <<ActionProcessorWrapper(types)>>, 1>>
    ELSE LET w == acts[actionKey][1] IN
         IF w.argTypes # get_template_args_info(types) \/ w.argCount # Len(types)
         THEN <<acts[actionKey], 0>>
         ELSE IF w.Args # types THEN <<acts[actionKey], 0>>
         ELSE <<acts[actionKey], 1>>

\* AddHandlerDetailed and AddValidatorDetailed, behind AddValidator,
\* AddSequentialProcessor, SetFinalProcessor, AddTriggerListener,
\* AddValidationListener and AddCompletionListener
AddHandlerDetailed(actionKey, types, type, priority, behaviour) ==
    /\ LET handle == ActionHandle(nextHandleId, actionKey, type)
           got == IF allowOverload THEN GetOrCreateProcessor(actions, actionKey, types)
                  ELSE GetOrCreateProcessorWithCheck(actions, actionKey, types)
       IN /\ nextHandleId' = nextHandleId + 1
          /\ IF got[2] = 0
             THEN \* the registration throws
                  /\ actOp' = ActOp("add", actionKey, get_template_args_info(types),
                                    nextHandleId, FALSE, ActionResult, FALSE)
                  /\ UNCHANGED <<actions, handleToActionMap>>
             ELSE /\ \E w \in AddToWrapper(got[1][got[2]], type,
                                            Handler(handle, priority, behaviour)) :
                        actions' = (actionKey :> [got[1] EXCEPT ![got[2]] = w]) @@ actions
                  /\ handleToActionMap' = (handle :> actionKey) @@ handleToActionMap
                  /\ actOp' = ActOp("add", actionKey, get_template_args_info(types),
                                    nextHandleId, TRUE, ActionResult, TRUE)
    /\ trace' = <<>>
    /\ globalSeen' = <<>>
    /\ UNCHANGED <<allowOverload, globalCompletionListeners, nextGlobalListenerId,
                   treeVars, busVars, heapVars, poolVars>>

AddGlobalCompletionListener(priority, behaviour) ==
    /\ \E sorted \in SortByPriority(Append(globalCompletionListeners,
                        [id |-> nextGlobalListenerId, priority |-> priority,
                         behaviour |-> behaviour])) :
          globalCompletionListeners' = sorted
    /\ nextGlobalListenerId' = nextGlobalListenerId + 1
    /\ actOp' = ActOp("addGlobal", "", <<>>, nextGlobalListenerId, TRUE, ActionResult, TRUE)
    /\ trace' = <<>>
    /\ globalSeen' = <<>>
    /\ UNCHANGED <<allowOverload, actions, handleToActionMap, nextHandleId,
                   treeVars, busVars, heapVars, poolVars>>

\* the calls NotifyGlobalListeners makes, as entries of the trace
GlobalCalls(n) ==
    [i \in 1..n |->
        [stage |-> "GlobalCompletionListener", id |-> globalCompletionListeners[i].id,
         priority |-> globalCompletionListeners[i].priority,
         behaviour |-> globalCompletionListeners[i].behaviour]]

\* ActionSystem::Execute(actionKey, args...): an exception that leaves the
\* container leaves Execute before NotifyGlobalListeners
Execute(actionKey, args) ==
    LET types == Deduce(args)
        i == FindMatchingProcessor(allowOverload, actions, actionKey, types)
        r == IF i = 0
             THEN [result |-> [ActionResult EXCEPT !.errorMessage =
                                  "Action not found or no matching parameter types"],
                   trace |-> <<>>, done |-> TRUE, escaped |-> FALSE]
             ELSE ExecuteWithForward(actions[actionKey][i], Len(args))
        seen == IF r.escaped THEN <<>> ELSE NotifyGlobalListeners(actionKey, r.result)
    IN /\ actOp' = ActOp("execute", actionKey, get_template_args_info(types), 0, i # 0,
                         r.result,
                         ~r.escaped /\ FirstEscape(globalCompletionListeners) = 0)
       /\ trace' = r.trace \o GlobalCalls(Len(seen))
       /\ globalSeen' = seen
       /\ UNCHANGED <<allowOverload, actions, handleToActionMap, nextHandleId,
                      globalCompletionListeners, nextGlobalListenerId, treeVars, busVars, heapVars, poolVars>>

\* ActionProcessorContainer::RemoveHandler that reports the final processor
\* as removed without resetting it
ContainerRemoveHandlerKeepsFinal(w, handle) ==
    IF w.finalProcessor # <<>> /\ w.finalProcessor[1].handle = handle
    THEN <<w, TRUE>>
    ELSE LET drop(v) == SelectSeq(v, LAMBDA h : h.handle # handle)
             w1 == [w EXCEPT !.validators = drop(@), !.sequentialProcessors = drop(@),
                             !.triggerListeners = drop(@), !.validationListeners = drop(@),
                             !.completionListeners = drop(@)]
         IN <<w1, w1 # w>>

\* ActionProcessorContainer::RemoveHandler: <<container after, whether removed>>
ContainerRemoveHandler(w, handle) ==
    IF w.finalProcessor # <<>> /\ w.finalProcessor[1].handle = handle
    THEN <<[w EXCEPT !.finalProcessor = <<>>], TRUE>>
    ELSE LET drop(v) == SelectSeq(v, LAMBDA h : h.handle # handle)
             w1 == [w EXCEPT !.validators = drop(@), !.sequentialProcessors = drop(@),
                             !.triggerListeners = drop(@), !.validationListeners = drop(@),
                             !.completionListeners = drop(@)]
         IN <<w1, w1 # w>>

\* GetActionVariantCount: the wrappers stored under the key
GetActionVariantCount(acts, actionKey) ==
    IF actionKey \notin DOMAIN acts THEN 0
    ELSE IF allowOverload THEN Len(acts[actionKey])
    ELSE 1

\* ActionSystem::RemoveHandler(handle)
RemoveHandler(handle) ==
    /\ IF handle \notin DOMAIN handleToActionMap
       THEN /\ actOp' = ActOp("remove", "", <<>>, handle.id, FALSE, ActionResult, TRUE)
            /\ UNCHANGED <<actions, handleToActionMap>>
       ELSE LET actionKey == handleToActionMap[handle]
                ws == actions[actionKey]
                hit == {i \in 1..Len(ws) : ContainerRemoveHandler(ws[i], handle)[2]}
            IN IF hit = {}
               THEN /\ actOp' = ActOp("remove", actionKey, <<>>, handle.id, FALSE,
                                      ActionResult, TRUE)
                    /\ UNCHANGED <<actions, handleToActionMap>>
               ELSE LET i == CHOOSE x \in hit : \A y \in hit : x <= y
                        ws1 == [ws EXCEPT ![i] = ContainerRemoveHandler(ws[i], handle)[1]]
                        \* overload mode erases the wrappers left without handlers
                        ws2 == IF allowOverload
                               THEN SelectSeq(ws1, LAMBDA w : GetTotalHandlers(w) # 0)
                               ELSE ws1
                    IN /\ actions' = [actions EXCEPT ![actionKey] = ws2]
                       /\ handleToActionMap' = Without(handleToActionMap, handle)
                       /\ actOp' = ActOp("remove", actionKey, <<>>, handle.id, TRUE,
                                         ActionResult, TRUE)
    /\ trace' = <<>>
    /\ globalSeen' = <<>>
    /\ UNCHANGED <<allowOverload, nextHandleId, globalCompletionListeners,
                   nextGlobalListenerId, treeVars, busVars, heapVars, poolVars>>

\* ActionSystem::Clear
Clear ==
    /\ actions' = <<>>
    /\ handleToActionMap' = <<>>
    /\ globalCompletionListeners' = <<>>
    /\ nextHandleId' = 1
    /\ nextGlobalListenerId' = 1
    /\ actOp' = ActOp("clear", "", <<>>, 0, TRUE, ActionResult, TRUE)
    /\ trace' = <<>>
    /\ globalSeen' = <<>>
    /\ UNCHANGED <<allowOverload, treeVars, busVars, heapVars, poolVars>>

InitAction ==
    /\ allowOverload \in BOOLEAN
    /\ actions = <<>>
    /\ handleToActionMap = <<>>
    /\ nextHandleId = 1
    /\ globalCompletionListeners = <<>>
    /\ nextGlobalListenerId = 1
    /\ actOp = ActOp("init", "", <<>>, 0, TRUE, ActionResult, TRUE)
    /\ trace = <<>>
    /\ globalSeen = <<>>

(***************************************************************************)
(* Specifications                                                          *)
(***************************************************************************)
(***************************************************************************)
(* StatePath with its nodes as objects in memory. A node is a cell at an   *)
(* address; an ObjectNode holds the addresses of its children, as the map  *)
(* of BaseNode* does. new takes a free address, delete frees one. The      *)
(* calls are the calls of the tree above, written on pointers, so that a   *)
(* node held twice, a pointer to a freed node and a node freed twice can   *)
(* be told.                                                                *)
(***************************************************************************)
\* cells in memory at a time, the root included
MaxCells == 4

Addresses == 0..(MaxCells + 3)

\* the address of StatePath::root
RootPtr == 0

\* nullptr
NullPtr == 0 - 1

HeapCell(type, children) == [type |-> type, children |-> children]

\* new: the address the allocator hands out
Alloc(cells) ==
    CHOOSE a \in Addresses :
        a \notin DOMAIN cells /\ \A b \in 0..(a - 1) : b \in DOMAIN cells

RECURSIVE Delete(_, _)
\* delete p for a node that is allocated: ~ObjectNode deletes the children
Delete(cells, p) ==
    IF p \notin DOMAIN cells THEN cells
    ELSE LET kids == {cells[p].children[n] : n \in DOMAIN cells[p].children}
             after == IF kids = {} THEN cells
                      ELSE LET k == CHOOSE x \in kids : TRUE
                               c1 == Delete(cells, k)
                           IN IF p \in DOMAIN c1
                              THEN [c1 EXCEPT ![p].children =
                                       [n \in {m \in DOMAIN @ : @[m] # k} |-> @[n]]]
                              ELSE c1
         IN IF kids = {} THEN Without(cells, p) ELSE Delete(after, p)

\* ObjectNode::getChild on pointers
HeapGetChild(cells, obj, name) ==
    IF name \in DOMAIN cells[obj].children THEN cells[obj].children[name] ELSE NullPtr

\* ObjectNode::addChild on pointers: the node the name held is deleted
HeapAddChild(cells, obj, name, node) ==
    LET c1 == IF name \in DOMAIN cells[obj].children
              THEN Delete(cells, cells[obj].children[name])
              ELSE cells
    IN [c1 EXCEPT ![obj].children = (name :> node) @@ @]

\* ObjectNode::removeChild that hands the node out and leaves it in the map
HeapRemoveChildKeepsEntry(cells, obj, name) ==
    IF name \in DOMAIN cells[obj].children
    THEN <<cells, cells[obj].children[name]>>
    ELSE <<cells, NullPtr>>

\* ObjectNode::removeChild on pointers: <<cells, the node taken out or nullptr>>
HeapRemoveChild(cells, obj, name) ==
    IF name \in DOMAIN cells[obj].children
    THEN << [cells EXCEPT ![obj].children = Without(@, name)], cells[obj].children[name] >>
    ELSE <<cells, NullPtr>>

RECURSIVE HeapWalkCreate(_, _, _)
\* the loop of getParentAndName on pointers: <<cells, the ObjectNode reached>>
HeapWalkCreate(cells, current, parts) ==
    IF parts = <<>> THEN <<cells, current>>
    ELSE LET node == HeapGetChild(cells, current, parts[1]) IN
         IF node = NullPtr \/ cells[node].type # "OBJECT"
         THEN LET newObj == Alloc(cells)
                  c1 == (newObj :> HeapCell("OBJECT", <<>>)) @@ cells
              IN HeapWalkCreate(HeapAddChild(c1, current, parts[1], newObj), newObj,
                                Tail(parts))
         ELSE HeapWalkCreate(cells, node, Tail(parts))

\* getParentAndName on pointers: <<cells, parent, name>>
HeapGetParentAndName(cells, path) ==
    LET parts == splitPath(path) IN
    IF parts = <<>> THEN <<cells, NullPtr, <<>> >>
    ELSE LET w == HeapWalkCreate(cells, RootPtr, Front(parts))
         IN <<w[1], w[2], Last(parts)>>

RECURSIVE HeapWalkNoCreate(_, _, _)
\* the loop of getParentAndNameNoCreate on pointers
HeapWalkNoCreate(cells, current, parts) ==
    IF parts = <<>> THEN current
    ELSE LET node == HeapGetChild(cells, current, parts[1]) IN
         IF node = NullPtr \/ cells[node].type # "OBJECT" THEN NullPtr
         ELSE HeapWalkNoCreate(cells, node, Tail(parts))

\* getParentAndNameNoCreate on pointers: <<parent, name>>
HeapGetParentAndNameNoCreate(cells, path) ==
    LET parts == splitPath(path) IN
    IF parts = <<>> THEN <<NullPtr, <<>> >>
    ELSE <<HeapWalkNoCreate(cells, RootPtr, Front(parts)), Last(parts)>>

\* the record of a call on the nodes in memory; fault tells that the call
\* ended the process by a memory fault; deleted are the nodes a setNode that
\* found a node at path has handed to delete, in order
HeapOp(cells, op, path, to, ok, fault) ==
    [cells |-> cells, op |-> op, path |-> path, to |-> to, ok |-> ok, fault |-> fault,
     deleted |-> <<>>]

\* setInt, setFloat, setBool, setPointer, setString on pointers
HeapSetValue(kind, path) ==
    LET pn == HeapGetParentAndName(heap.cells, path)
        c1 == pn[1]
        parent == pn[2]
        name == pn[3]
    IN /\ IF parent = NullPtr
          THEN heap' = HeapOp(heap.cells, "set", path, <<>>, FALSE, FALSE)
          ELSE LET oldNode == HeapGetChild(c1, parent, name) IN
               IF oldNode # NullPtr /\ c1[oldNode].type = kind
               THEN heap' = HeapOp(c1, "set", path, <<>>, TRUE, FALSE)
               ELSE LET n == Alloc(c1)
                        c2 == (n :> HeapCell(kind, <<>>)) @@ c1
                    IN heap' = HeapOp(HeapAddChild(c2, parent, name, n), "set", path, <<>>,
                                      TRUE, FALSE)
       /\ UNCHANGED <<treeVars, busVars, actVars, poolVars>>

\* setNode(path, new Node) on pointers. When a node is at path, addChild
\* deletes it and setNode deletes it again: the second delete is undefined,
\* the call returns or the process ends by a memory fault
HeapSetNode(kind, path) ==
    LET node == Alloc(heap.cells)
        c0 == (node :> HeapCell(kind, <<>>)) @@ heap.cells
        pn == HeapGetParentAndName(c0, path)
        c1 == pn[1]
        parent == pn[2]
        name == pn[3]
    IN /\ IF parent = NullPtr
          THEN heap' = HeapOp(Delete(c0, node), "setNode", path, <<>>, FALSE, FALSE)
          ELSE LET oldNode == HeapGetChild(c1, parent, name)
                   c2 == HeapAddChild(c1, parent, name, node)
               IN \E fault \in (IF oldNode = NullPtr THEN {FALSE} ELSE BOOLEAN) :
                     heap' = [HeapOp(c2, "setNode", path, <<>>, TRUE, fault) EXCEPT
                                 !.deleted = IF oldNode = NullPtr THEN <<>>
                                             ELSE <<oldNode, oldNode>>]
       /\ UNCHANGED <<treeVars, busVars, actVars, poolVars>>

\* removeNode on pointers
HeapRemoveNode(path) ==
    LET pn == HeapGetParentAndNameNoCreate(heap.cells, path)
        parent == pn[1]
        name == pn[2]
    IN /\ IF parent = NullPtr
          THEN heap' = HeapOp(heap.cells, "remove", path, <<>>, FALSE, FALSE)
          ELSE LET r == HeapRemoveChild(heap.cells, parent, name) IN
               IF r[2] = NullPtr
               THEN heap' = HeapOp(heap.cells, "remove", path, <<>>, FALSE, FALSE)
               ELSE heap' = HeapOp(Delete(r[1], r[2]), "remove", path, <<>>, TRUE, FALSE)
       /\ UNCHANGED <<treeVars, busVars, actVars, poolVars>>

\* moveNode on pointers
HeapMoveNode(fromPath, toPath) ==
    LET from == HeapGetParentAndNameNoCreate(heap.cells, fromPath)
        fromParent == from[1]
        fromName == from[2]
    IN /\ IF fromParent = NullPtr
          THEN heap' = HeapOp(heap.cells, "move", fromPath, toPath, FALSE, FALSE)
          ELSE LET r == HeapRemoveChild(heap.cells, fromParent, fromName)
                   node == r[2]
               IN IF node = NullPtr
                  THEN heap' = HeapOp(heap.cells, "move", fromPath, toPath, FALSE, FALSE)
                  ELSE LET to == HeapGetParentAndName(r[1], toPath)
                           toParent == to[2]
                           toName == to[3]
                       IN IF toParent = NullPtr
                          THEN heap' = HeapOp(HeapAddChild(to[1], fromParent, fromName, node),
                                              "move", fromPath, toPath, FALSE, FALSE)
                          ELSE heap' = HeapOp(HeapAddChild(to[1], toParent, toName, node),
                                              "move", fromPath, toPath, TRUE, FALSE)
       /\ UNCHANGED <<treeVars, busVars, actVars, poolVars>>

\* StatePath::StatePath: root = new ObjectNode(this, "")
InitHeap ==
    heap = HeapOp((RootPtr :> HeapCell("OBJECT", <<>>)), "init", <<>>, <<>>, TRUE, FALSE)

(***************************************************************************)
(* StaticString: the string pool shared by the threads that intern strings *)
(***************************************************************************)
\* threads that construct StaticStrings
MaxThreads == 2

Threads == 1..MaxThreads

\* const char* arguments: a null pointer, "", "a", "b"
NullStr == <<"\\0">>

CStrings == { NullStr, <<>>, <<"a">>, <<"b">> }

\* no thread holds the mutex
NoThread == 0

\* std::lock_guard that does not wait for the mutex
MutexFreeUnchecked(t) == TRUE

\* std::lock_guard<std::mutex> lock(mutex) can be passed by t
MutexFree(t) == pool.mutex = NoThread

\* a thread calls getStringId(str) -> getIdForString(str) and comes to the lock
getStringId(t, str) ==
    /\ threads[t].pc = "idle"
    /\ threads' = [threads EXCEPT ![t] = [pc |-> "lock", str |-> str, s |-> <<>>]]
    /\ UNCHANGED <<pool, interned, treeVars, busVars, actVars, heapVars>>

\* the lock is taken, std::string s = str ? str : ""
Lock(t) ==
    /\ threads[t].pc = "lock"
    /\ MutexFree(t)
    /\ pool' = [pool EXCEPT !.mutex = t]
    /\ threads' = [threads EXCEPT ![t].pc = "find",
                                  ![t].s = IF threads[t].str = NullStr THEN <<>>
                                           ELSE threads[t].str]
    /\ UNCHANGED <<interned, treeVars, busVars, actVars, heapVars>>

\* the lock_guard's destructor at a return: the mutex is released by its holder
Unlock(t) == IF pool.mutex = t THEN NoThread ELSE pool.mutex

\* stringToId.find(s): a string found returns its id
Find(t) ==
    /\ threads[t].pc = "find"
    /\ LET s == threads[t].s IN
       IF s \in DOMAIN pool.stringToId
       THEN /\ interned' = interned \cup {<<s, pool.stringToId[s]>>}
            /\ threads' = [threads EXCEPT ![t].pc = "idle"]
            /\ pool' = [pool EXCEPT !.mutex = Unlock(t)]
       ELSE /\ threads' = [threads EXCEPT ![t].pc = "insert"]
            /\ UNCHANGED <<pool, interned>>
    /\ UNCHANGED <<treeVars, busVars, actVars, heapVars>>

\* newId = nextId++; stringToId[s] = newId; idToString.push_back(s); return newId
Insert(t) ==
    /\ threads[t].pc = "insert"
    /\ LET s == threads[t].s
           newId == pool.nextId
       IN /\ pool' = [pool EXCEPT !.nextId = newId + 1,
                                  !.stringToId = (s :> newId) @@ @,
                                  !.idToString = Append(@, s),
                                  !.mutex = Unlock(t)]
          /\ interned' = interned \cup {<<s, newId>>}
    /\ threads' = [threads EXCEPT ![t].pc = "idle"]
    /\ UNCHANGED <<treeVars, busVars, actVars, heapVars>>

InitPool ==
    /\ pool = [stringToId |-> <<>>, idToString |-> <<>>, nextId |-> 0, mutex |-> NoThread]
    /\ threads = [t \in Threads |-> [pc |-> "idle", str |-> <<>>, s |-> <<>>]]
    /\ interned = {}

Init == InitTree /\ InitBus /\ InitAction /\ InitHeap /\ InitPool

\* the state tree without listeners: values of the five leaf kinds are set and removed
NextTree ==
    \/ \E p \in TreePaths, v \in Values : setInt(p, v)
    \/ \E p \in TreePaths : setFloat(p, 1)
    \/ \E p \in TreePaths : setBool(p, 1)
    \/ \E p \in TreePaths : setPointer(p, 1)
    \/ \E p \in TreePaths : setString(p, 1)
    \/ \E p \in TreePaths : removeNode(p)

SpecTree == Init /\ [][NextTree]_vars

\* C2: after set<K>(p, v) on a path p of at least one segment, for every leaf
\* kind K and whatever the tree held before (nothing at p, a node of kind K,
\* a node of another kind, a non-Object node where an ancestor of p is
\* needed), has(p) holds, the type at p is K and get<K>(p) returns v.
C2_SetThenRead ==
    (treeOp.op = "set" /\ splitPath(treeOp.path) # <<>>) =>
        /\ treeOp.ok
        /\ hasNode(root, treeOp.path)
        /\ getNodeType(root, treeOp.path) = treeOp.kind
        /\ getTypedValue(root, treeOp.path, treeOp.kind) = <<TRUE, treeOp.value>>

\* a set of a/b made when a was a leaf of another kind: the leaf gave way to
\* an ObjectNode and the value is read back
C2_SetBelowLeaf ==
    /\ treeOp.op = "set"
    /\ treeOp.kind = "STRING"
    /\ treeOp.priorParent = "INT"
    /\ getNodeType(root, <<"a">>) = "OBJECT"
    /\ getTypedValue(root, treeOp.path, "STRING") = <<TRUE, treeOp.value>>

\* the state tree with moves, without listeners
NextMove ==
    \/ \E p \in TreePaths, v \in Values : setInt(p, v)
    \/ \E p \in TreePaths : removeNode(p)
    \/ \E p, q \in TreePaths : moveNode(p, q) /\ Depth(root') <= MaxDepth

SpecMove == Init /\ [][NextMove]_vars

\* C3: every successful move(a, b) emits exactly one Move event with path a
\* and related path b and no Add or Remove event; afterwards has(b) holds,
\* has(a) does not, and what was readable at a/x is readable at b/x (the
\* node at b is the node that was moved, with its subtree).
C3_MoveRelocates ==
    (treeOp.op = "move" /\ treeOp.ok) =>
        /\ Len(events) = 1
        /\ events[1].type = "MOVE"
        /\ events[1].path = treeOp.path
        /\ events[1].relatedPath = treeOp.to
        /\ hasNode(root, treeOp.to)
        /\ ~hasNode(root, treeOp.path)
        /\ getNode(root, treeOp.to) = events[1].node

\* a successful move after which the source path still holds a node
C3_SourceStillThere ==
    /\ treeOp.op = "move"
    /\ treeOp.ok
    /\ treeOp.path = <<"a">>
    /\ treeOp.to = <<"a", "/", "b">>
    /\ hasNode(root, treeOp.path)

\* the listeners of the state tree: listeners at "" and at "a", events at a
\* and at a/b
ListenPaths == { <<>>, <<"a">> }

Granularities == {"NODE", "DIRECT_CHILD", "ALL_CHILDREN"}

ListenEventTypes == {"ADD", "UPDATE"}

NextListen ==
    \/ \E p \in ListenPaths, g \in Granularities, t \in ListenEventTypes :
          addEventListener(p, g, t)
    \/ \E id \in 1..MaxListeners : removeEventListener(id)
    \/ \E p \in { <<"a">>, <<"a", "/", "b">> } : setInt(p, 1)
    \/ removeNode(<<"a">>)

SpecListen == Init /\ [][NextListen]_vars

\* the listeners registered with the EventManager
Listeners == UNION { {trie[n][i] : i \in DOMAIN trie[n]} : n \in DOMAIN trie }

\* how often the callback of listener id was invoked with event i of the last call
Times(id, i) == Cardinality({j \in DOMAIN delivered : delivered[j] = <<id, i>>})

\* C6: a listener registered as (p, Subtree, K) is invoked exactly once for
\* every emitted event of kind K whose path is p or a descendant of p, for
\* every p, the root path "" included.
C6_SubtreeListenerFires ==
    \A i \in DOMAIN events : \A l \in Listeners :
        (/\ l.granularity = "ALL_CHILDREN"
         /\ l.eventType = events[i].type
         /\ IsPrefix(splitPath(l.path), splitPath(events[i].path)))
        => Times(l.id, i) = 1

\* an event at a descendant of the root that a Subtree listener at "" did not get
C6_RootListenerMissed ==
    \E i \in DOMAIN events : \E l \in Listeners :
        /\ l.path = <<>>
        /\ l.granularity = "ALL_CHILDREN"
        /\ l.eventType = events[i].type
        /\ Times(l.id, i) = 0

\* the event bus
NextBus ==
    \/ \E k \in BusKeys, t \in BusHandlerTypes, once \in BOOLEAN, b \in {"ok", "throw"} :
          Subscribe(k, t, once, b)
    \/ \E k \in BusKeys, t \in BusHandlerTypes, once \in BOOLEAN, b \in {"ok", "throw"} :
          SubscribeUnicast(k, t, once, b)
    \/ \E k \in BusKeys, t \in BusTypes : Publish(k, t)
    \/ \E k \in BusKeys, t \in BusTypes : PublishUnicast(k, t)
    \/ \E token \in 1..MaxTokens : UnsubscribeCall(token)

SpecBus == Init /\ [][NextBus]_vars

\* the tokens the last Publish delivered to: those invoked that returned
Delivered == Returned(invoked, busOp.returned)

\* C4: a subscription made with once = true is delivered to at most once over
\* any sequence of publishes: it is removed after, and only after, its first
\* successful delivery (a publish whose signature does not match it leaves it
\* subscribed), and the subscriber count of its key then drops by one.
C4_OnceAtMostOnce ==
    /\ \A t \in DOMAIN calls :
          /\ calls[t] <= 1
          /\ calls[t] = 1 => t \notin DOMAIN tokenToEventNameMap
          /\ (calls[t] = 0 /\ t \notin gone) => t \in DOMAIN tokenToEventNameMap
    /\ busOp.op = "publish" =>
          Count(Bus, busOp.eventName, busOp.mode) =
              busOp.countBefore - Cardinality({t \in DOMAIN calls : InSeq(t, Delivered)})

\* a once-subscription that was delivered to twice
C4_OnceDeliveredTwice == \E t \in DOMAIN calls : calls[t] = 2

\* C7: a key holds at most one unicast handler: after SubscribeUnicast(k, f1)
\* and then SubscribeUnicast(k, f2), PublishUnicast(k) invokes f2 only, f1 is
\* never invoked again, and the result counts one subscriber.
C7_UnicastLatestOnly ==
    /\ \A k \in BusKeys :
          /\ GetUnicastSubscriberCount(Bus, k) <= 1
          /\ k \in DOMAIN unicastEventHandlers =>
                unicastEventHandlers[k].token = lastUnicast[k]
    /\ \A i \in DOMAIN invoked : invoked[i] \notin gone
    /\ (busOp.op = "publish" /\ busOp.mode = "Unicast") =>
          /\ Len(invoked) <= 1
          /\ \A i \in DOMAIN invoked : invoked[i] = lastUnicast[busOp.eventName]
          /\ (busOp.returned /\ busOp.countBefore = 1) => busOp.result.totalSubscribers = 1

\* f1 then f2 were subscribed to a key by SubscribeUnicast, and PublishUnicast
\* has invoked f2 alone
C7_SecondHandlerInvoked ==
    /\ busOp.op = "publish"
    /\ busOp.mode = "Unicast"
    /\ busOp.returned
    /\ 1 \in gone
    /\ lastUnicast[busOp.eventName] = 2
    /\ invoked = <<2>>
    /\ busOp.result.totalSubscribers = 1

\* the action pipeline, every handler of priority 0
NextAction ==
    \/ \E k \in ActionKeys, a \in HandlerArgs, type \in HandlerTypes :
          \E b \in Behaviours(type) :
             Registered < MaxHandlers /\ AddHandlerDetailed(k, a, type, 0, b)
    \/ \E b \in {"ok", "throw"} :
          Registered < MaxHandlers /\ AddGlobalCompletionListener(0, b)
    \/ \E a \in ExecuteArgs : Execute("k1", a)
    \/ Execute(UnknownKey, <<>>)

SpecAction == Init /\ [][NextAction]_vars

\* the stages of the pipeline that come after the given one
LaterStages(stage) ==
    CASE stage = "TriggerListener" ->
            {"Validator", "ValidationListener", "SequentialProcessor", "FinalProcessor",
             "CompletionListener"}
      [] stage = "Validator" ->
            {"ValidationListener", "SequentialProcessor", "FinalProcessor", "CompletionListener"}
      [] stage = "ValidationListener" ->
            {"SequentialProcessor", "FinalProcessor", "CompletionListener"}
      [] stage = "SequentialProcessor" -> {"FinalProcessor", "CompletionListener"}
      [] stage = "FinalProcessor" -> {"CompletionListener"}
      [] OTHER -> {}

\* C1: if a validator of the resolved container returns false or throws, no
\* handler of a later stage runs in that Execute (no validation listener, no
\* sequential processor, no final processor, no completion listener), and
\* the result has validationPassed = false, success = false and
\* executedProcessors = 0.
C1_ValidatorFailureStops ==
    (/\ actOp.op = "execute"
     /\ \E i \in DOMAIN trace : trace[i].stage = "Validator" /\ trace[i].behaviour # "ok")
    => /\ \A j \in DOMAIN trace : trace[j].stage \notin LaterStages("Validator")
       /\ actOp.returned
       /\ ~actOp.result.validationPassed
       /\ ~actOp.result.success
       /\ actOp.result.executedProcessors = 0

\* an Execute that a validator's exception left without a result
C1_ValidatorExceptionEscapes ==
    /\ actOp.op = "execute"
    /\ ~actOp.returned
    /\ \E i \in DOMAIN trace : trace[i].stage = "Validator" /\ trace[i].behaviour = "throwOther"

\* C8: if a sequential processor or the final processor throws during
\* Execute, no later sequential processor, no final processor and no
\* completion listener runs in that Execute, and the result has success = false.
C8_ProcessorThrowAborts ==
    (actOp.op = "execute") =>
        \A i \in DOMAIN trace :
            (trace[i].stage \in {"SequentialProcessor", "FinalProcessor"}
             /\ trace[i].behaviour # "ok")
            => /\ \A j \in DOMAIN trace :
                     j > i => trace[j].stage \notin
                                 {"SequentialProcessor", "FinalProcessor", "CompletionListener"}
               /\ actOp.returned
               /\ ~actOp.result.success

\* an Execute that a processor's exception left without a result
C8_ProcessorExceptionEscapes ==
    /\ actOp.op = "execute"
    /\ ~actOp.returned
    /\ \E i \in DOMAIN trace :
          trace[i].stage = "SequentialProcessor" /\ trace[i].behaviour = "throwOther"

\* C9: every call to Execute invokes each registered global completion
\* listener exactly once, after the container's stages have finished, with
\* the action key and the same result that Execute returns; also when the key
\* is unknown, when no signature matches, when a validator rejects and when a
\* processor aborts.
C9_GlobalListenersAlways ==
    (actOp.op = "execute") =>
        /\ \A i \in DOMAIN globalCompletionListeners :
              Cardinality({j \in DOMAIN globalSeen :
                              globalSeen[j][1] = globalCompletionListeners[i].id}) = 1
        /\ \A j \in DOMAIN globalSeen :
              globalSeen[j][2] = actOp.actionKey /\ globalSeen[j][3] = actOp.result
        /\ \A i, j \in DOMAIN trace :
              (trace[i].stage = "GlobalCompletionListener" /\ i < j)
              => trace[j].stage = "GlobalCompletionListener"

\* an Execute in which a processor ran and a registered global completion
\* listener was not invoked
C9_GlobalListenerSkipped ==
    /\ actOp.op = "execute"
    /\ globalCompletionListeners # <<>>
    /\ globalSeen = <<>>
    /\ \E i \in DOMAIN trace : trace[i].stage = "SequentialProcessor"

\* handlers of the six kinds that return, registered for one action
MaxStageHandlers == 4

NextStages ==
    \/ \E type \in HandlerTypes :
          /\ Registered < MaxStageHandlers
          /\ AddHandlerDetailed("k1", <<IntT>>, type, 0, "ok")
    \/ Execute("k1", <<[base |-> "int", const |-> FALSE, cat |-> "rvalue"]>>)

SpecStages == Init /\ [][NextStages]_vars

\* the place of a stage in the pipeline
StageRank(stage) ==
    CASE stage = "TriggerListener" -> 1
      [] stage = "Validator" -> 2
      [] stage = "ValidationListener" -> 3
      [] stage = "SequentialProcessor" -> 4
      [] stage = "FinalProcessor" -> 5
      [] stage = "CompletionListener" -> 6
      [] OTHER -> 7

\* C5: within one Execute the handlers run in the order of the stages:
\* trigger listeners, validators, validation listeners, sequential
\* processors, the final processor, completion listeners.
C5_StageOrder ==
    \A i, j \in DOMAIN trace :
        i < j => StageRank(trace[i].stage) <= StageRank(trace[j].stage)

\* an Execute that went through four stages, from the trigger listener to
\* the completion listener
C5_FourStagesRan ==
    /\ actOp.op = "execute"
    /\ actOp.result.success
    /\ Len(trace) = 4
    /\ \A i \in 1..3 : StageRank(trace[i].stage) < StageRank(trace[i + 1].stage)
    /\ trace[1].stage = "TriggerListener"
    /\ trace[4].stage = "CompletionListener"

\* priorities given to handlers
Priorities == {0, 1}

\* validators and sequential processors of two priorities, registered and removed
NextPriority ==
    \/ \E type \in {"Validator", "SequentialProcessor"}, pr \in Priorities :
          /\ Registered < MaxHandlers
          /\ AddHandlerDetailed("k1", <<IntT>>, type, pr, "ok")
    \/ \E id \in 1..MaxHandlers, type \in {"Validator", "SequentialProcessor"} :
          RemoveHandler(ActionHandle(id, "k1", type))
    \/ \E a \in ExecuteArgs : Execute("k1", a)

SpecPriority == Init /\ [][NextPriority]_vars

\* C10: within each stage the handlers run in ascending priority, handlers
\* of equal priority in the order of their registration (handles are issued
\* in ascending order), after any mix of registrations and removals.
C10_PriorityThenRegistration ==
    \A i, j \in DOMAIN trace :
        (i < j /\ trace[i].stage = trace[j].stage) =>
            \/ trace[i].priority < trace[j].priority
            \/ trace[i].priority = trace[j].priority /\ trace[i].id < trace[j].id

\* two sequential processors of one priority that ran against the order of
\* their registration
C10_EqualPriorityReordered ==
    \E i, j \in DOMAIN trace :
        /\ i < j
        /\ trace[i].stage = "SequentialProcessor"
        /\ trace[j].stage = "SequentialProcessor"
        /\ trace[i].priority = trace[j].priority
        /\ trace[i].id > trace[j].id

\* handlers registered where signatures are told apart
MaxSigHandlers == 3

\* parameter lists of the handlers: (), (int)
SigHandlerArgs == { <<>>, <<IntT>> }

\* argument lists of Execute: (), (7), (x) for an int variable x, (7, 9)
SigExecuteArgs ==
    LET r == [base |-> "int", const |-> FALSE, cat |-> "rvalue"]
        l == [base |-> "int", const |-> FALSE, cat |-> "lvalue"]
    IN { <<>>, <<r>>, <<l>>, <<r, r>> }

\* validators and processors of two signatures registered under one key, and
\* Executes of four signatures
NextSignature ==
    \/ \E a \in SigHandlerArgs, type \in {"Validator", "SequentialProcessor"} :
          /\ Registered < MaxSigHandlers
          /\ AddHandlerDetailed("k1", a, type, 0, "ok")
    \/ \E a \in SigExecuteArgs : Execute("k1", a)

SpecSignature == Init /\ [][NextSignature]_vars

\* the ids of the handles a wrapper's container holds
HandleIds(w) ==
    LET ids(v) == {v[i].handle.id : i \in 1..Len(v)}
    IN ids(w.validators) \cup ids(w.sequentialProcessors) \cup ids(w.finalProcessor)
       \cup ids(w.triggerListeners) \cup ids(w.validationListeners)
       \cup ids(w.completionListeners)

\* the wrappers of the key whose signature is the signature string given
SameSignature(actionKey, argTypes) ==
    IF actionKey \notin DOMAIN actions THEN {}
    ELSE {i \in 1..Len(actions[actionKey]) : actions[actionKey][i].argTypes = argTypes}

\* C11: in non-overload mode an Execute whose argument signature is not the
\* signature fixed for the key fails (success = false) and calls no handler
\* of the key's container.
C11_MismatchRejected ==
    (/\ ~allowOverload
     /\ actOp.op = "execute"
     /\ actOp.actionKey \in DOMAIN actions
     /\ SameSignature(actOp.actionKey, actOp.types) = {})
    => (~actOp.result.success /\ trace = <<>>)

\* Execute("k1", 7, 9) on a key whose handlers take (int): the processor ran
\* and the result reports success
C11_TwoArgsReachedIntHandler ==
    /\ ~allowOverload
    /\ actOp.op = "execute"
    /\ Len(actOp.types) = 2
    /\ "k1" \in DOMAIN actions
    /\ actions["k1"][1].Args = <<IntT>>
    /\ actOp.result.success
    /\ \E i \in DOMAIN trace : trace[i].stage = "SequentialProcessor"

\* C12: in non-overload mode a registration under a key whose signature is
\* fixed, with another arity or signature, fails with an exception to the
\* caller and leaves the handlers registered under the key as they were.
C12_MismatchedRegistrationFails ==
    [][(/\ ~allowOverload
        /\ nextHandleId' # nextHandleId
        /\ actOp'.actionKey \in DOMAIN actions
        /\ SameSignature(actOp'.actionKey, actOp'.types) = {})
       => (/\ actOp'.op = "add"
           /\ ~actOp'.ok
           /\ ~actOp'.returned
           /\ actions' = actions
           /\ handleToActionMap' = handleToActionMap)]_vars

\* a registration that was refused under a key that holds a handler of
\* another signature
C12_RegistrationRefused ==
    /\ ~allowOverload
    /\ actOp.op = "add"
    /\ ~actOp.ok
    /\ "k1" \in DOMAIN actions
    /\ GetTotalHandlers(actions["k1"][1]) > 0
    /\ actions["k1"][1].argTypes # actOp.types

\* C13: in overload mode Execute calls handlers only of the container under
\* the key whose arity and signature are those of the arguments; when the
\* key has no such container the result reports failure and no handler is
\* called.
C13_OverloadRouting ==
    (allowOverload /\ actOp.op = "execute") =>
        LET m == SameSignature(actOp.actionKey, actOp.types) IN
        /\ \A i \in DOMAIN trace :
              \E j \in m : trace[i].id \in HandleIds(actions[actOp.actionKey][j])
        /\ m = {} => (~actOp.result.success /\ trace = <<>>)

\* a handler of no parameter and a handler of (int) under one key, and an
\* Execute of no argument that called the former only
C13_ZeroArityRouted ==
    /\ allowOverload
    /\ actOp.op = "execute"
    /\ actOp.types = get_template_args_info(<<>>)
    /\ "k1" \in DOMAIN actions
    /\ Len(actions["k1"]) = 2
    /\ actOp.result.success
    /\ trace # <<>>

RECURSIVE PathsAgree(_, _)
\* every ObjectNode at or below node, which is at the place named by parts,
\* holds the path of its place as its absolutePath
PathsAgree(node, parts) ==
    node.type = "OBJECT" =>
        /\ node.absolutePath = joinParts(parts)
        /\ \A n \in DOMAIN node.children : PathsAgree(node.children[n], Append(parts, n))

\* C14: after any sets, removes and moves the absolute path every ObjectNode
\* stores is the path of the place it has in the tree.
C14_AbsolutePathsAgree == PathsAgree(root, <<>>)

\* the ObjectNode made at "a" is at "b" after a move and still holds "a"
C14_MovedObjectKeepsOldPath ==
    /\ treeOp.op = "move"
    /\ treeOp.ok
    /\ treeOp.to = <<"b">>
    /\ getNodeType(root, <<"b">>) = "OBJECT"
    /\ getNode(root, <<"b">>).absolutePath = <<"a">>

RECURSIVE Contents(_, _)
\* what has, typeOf and the getters tell of the nodes below node, which is at
\* the place named by parts: <<parts of the path, type, value>> of each
Contents(node, parts) ==
    UNION { {<<Append(parts, n), getType(node.children[n]), node.children[n].value>>}
            \cup Contents(node.children[n], Append(parts, n)) : n \in DOMAIN node.children }

\* the last call was a successful moveNode(b, a), right after a successful
\* moveNode(a, b)
MovedThereAndBack ==
    /\ treeOp.op = "move" /\ treeOp.ok
    /\ treeOp.first.moved /\ treeOp.first.ok
    /\ splitPath(treeOp.path) = splitPath(treeOp.first.to)
    /\ splitPath(treeOp.to) = splitPath(treeOp.first.path)

\* C15: moveNode(a, b) followed by moveNode(b, a) leaves the paths that
\* exist, their types and their values as they were before the first move.
C15_MoveRoundTrip ==
    MovedThereAndBack => Contents(root, <<>>) = Contents(treeOp.first.before, <<>>)

\* C15 as amended: the same, when before the first move nothing was at b and
\* the parent of b was there.
C15_MoveRoundTripFreeTarget ==
    (/\ MovedThereAndBack
     /\ ~hasNode(treeOp.first.before, treeOp.first.to)
     /\ getParentAndNameNoCreate(treeOp.first.before, treeOp.first.to)[1].type # "NULL")
    => Contents(root, <<>>) = Contents(treeOp.first.before, <<>>)

\* the subtree at "a" was moved to the free place "b" and back
C15_MovedBack ==
    /\ MovedThereAndBack
    /\ splitPath(treeOp.first.path) = <<"a">>
    /\ splitPath(treeOp.first.to) = <<"b">>
    /\ getNodeType(treeOp.first.before, <<"a">>) = "OBJECT"
    /\ ~hasNode(treeOp.first.before, <<"b">>)
    /\ getNodeType(treeOp.before, <<"b">>) = "OBJECT"
    /\ ~hasNode(treeOp.before, <<"a">>)
    /\ getNodeType(root, <<"a", "/", "b">>) = "INT"
    /\ ~hasNode(root, <<"b">>)

\* the paths looked at for what a call on another path did to them
FramePaths == { <<"a">>, <<"b">>, <<"a", "/", "b">> }

\* the paths the calls are made on: "", "a", "b", "a/b"
FrameOpPaths == { <<>>, <<"a">>, <<"b">>, <<"a", "/", "b">> }

\* sets of leaves, of objects and of nodes built by the caller, removes and
\* moves; after a memory fault the process makes no call
NextFrame ==
    \/ \E p \in FrameOpPaths : ~treeOp.fault /\ setInt(p, 1)
    \/ \E p \in FrameOpPaths \ {<<"b">>} : ~treeOp.fault /\ setObject(p)
    \/ \E p \in FrameOpPaths : ~treeOp.fault /\ setNode(p, "STRING", 1)
    \/ \E p \in FrameOpPaths : ~treeOp.fault /\ removeNode(p)
    \/ \E p, q \in FrameOpPaths :
          ~treeOp.fault /\ moveNode(p, q) /\ Depth(root') <= MaxDepth

\* the tree does not depend on the mode of the ActionSystem
InitFrame == Init /\ ~allowOverload

SpecFrame == InitFrame /\ [][NextFrame]_vars

\* type and value at path are the same in the trees r1 and r2
SameAt(r1, r2, path) ==
    /\ getNodeType(r1, path) = getNodeType(r2, path)
    /\ getNode(r1, path).value = getNode(r2, path).value

IsProperPrefix(s, t) == IsPrefix(s, t) /\ Len(s) < Len(t)

\* the paths the call o was made on: its path, and the target of a move
PathsOf(o) == {splitPath(o.path)} \cup (IF o.op = "move" THEN {splitPath(o.to)} ELSE {})

\* p2 is a path the call o was made on, or a descendant of its path that is
\* gone in the tree r2 after the call, or a descendant of the target of a move
Overwritten(o, r2, p2) ==
    \/ splitPath(p2) \in PathsOf(o)
    \/ IsProperPrefix(splitPath(o.path), splitPath(p2)) /\ ~hasNode(r2, p2)
    \/ o.op = "move" /\ IsProperPrefix(splitPath(o.to), splitPath(p2))

\* p2 is an ancestor of a path the call o was made on, held no ObjectNode in
\* the tree r1 before the call and holds one in the tree r2 after it
MadeObject(o, r1, r2, p2) ==
    /\ \E t \in PathsOf(o) : IsProperPrefix(splitPath(p2), t)
    /\ getNodeType(r1, p2) # "OBJECT"
    /\ getNodeType(r2, p2) = "OBJECT"

C17_SetEmitsAddOrUpdate ==
    [][(treeOp'.op = "set" /\ treeOp'.ok) =>
          /\ Len(events') = 1
          /\ events'[1].path = treeOp'.path
          /\ events'[1].relatedPath = <<>>
          /\ events'[1].type = IF hasNode(root, treeOp'.path) THEN "UPDATE" ELSE "ADD"
          /\ (/\ treeOp.op = "set" /\ treeOp.ok
              /\ splitPath(treeOp.path) = splitPath(treeOp'.path)
              /\ treeOp.prior = "EMPTY")
             => (events[1].type = "ADD" /\ events'[1].type = "UPDATE")]_vars

\* setString on a path that held an IntNode: the node is replaced and the
\* event is UPDATE
C17_ReplacedKindUpdates ==
    /\ treeOp.op = "set"
    /\ treeOp.ok
    /\ treeOp.prior = "INT"
    /\ treeOp.kind = "STRING"
    /\ getNodeType(root, treeOp.path) = "STRING"
    /\ Len(events) = 1
    /\ events[1].type = "UPDATE"

\* C18: removeNode of a path that holds a node returns true and emits one
\* REMOVE event for the path, which carries the node that was there, still
\* whole; after it nothing is at the path or below it. removeNode of a path
\* that holds no node returns false, emits no event and leaves the tree as
\* it was.
C18_RemoveNode ==
    [][treeOp'.op = "remove" =>
          IF hasNode(root, treeOp'.path)
          THEN /\ treeOp'.ok
               /\ Len(events') = 1
               /\ events'[1].type = "REMOVE"
               /\ events'[1].path = treeOp'.path
               /\ events'[1].node = getNode(root, treeOp'.path)
               /\ events'[1].nodeType = getNodeType(root, treeOp'.path)
               /\ \A q \in TreePaths :
                     IsPrefix(splitPath(treeOp'.path), splitPath(q)) =>
                         (~hasNode(root', q) /\ getNodeType(root', q) = "EMPTY")
          ELSE /\ ~treeOp'.ok
               /\ events' = <<>>
               /\ root' = root]_vars

\* the ObjectNode of "a" was removed with its child: the event carries the
\* node with the child, and neither "a" nor "a/b" is there
C18_SubtreeRemoved ==
    /\ treeOp.op = "remove"
    /\ treeOp.ok
    /\ splitPath(treeOp.path) = <<"a">>
    /\ Len(events) = 1
    /\ events[1].nodeType = "OBJECT"
    /\ hasChild(events[1].node, <<"b">>)
    /\ ~hasNode(root, <<"a">>)
    /\ ~hasNode(root, <<"a", "/", "b">>)

(***************************************************************************)
(* Multicast delivery and the counts of a publish.                         *)
(***************************************************************************)
\* the handlers a publish on eventName in mode has to consider, in
\* subscription order: the unicast slot or the multicast vector
Candidates(b, eventName, mode) ==
    IF mode = "Unicast"
    THEN IF eventName \in DOMAIN b.uh THEN << b.uh[eventName] >> ELSE <<>>
    ELSE Lookup(b.mh, eventName, <<>>)

\* C19: a multicast Publish on a key invokes every multicast handler of the
\* key whose signature matches the published arguments, each exactly once,
\* in the order in which the handlers were subscribed
C19_AllMatchingInOrder ==
    [][\A k \in BusKeys, t \in BusTypes :
          Publish(k, t) =>
              invoked' = tokensOf(SelectSeq(Candidates(Bus, k, "Multicast"),
                                            LAMBDA h : Matches(h, t)))]_vars

\* a multicast publish in which an earlier handler threw and a later handler
\* with the published signature was never invoked
C19_LaterHandlerNotInvoked ==
    /\ busOp.op = "publish"
    /\ busOp.mode = "Multicast"
    /\ ~busOp.returned
    /\ LET handlers == Candidates(Bus, busOp.eventName, "Multicast") IN
       \E i, j \in 1..Len(handlers) :
          /\ i < j
          /\ invoked # <<>>
          /\ handlers[i].token = invoked[Len(invoked)]
          /\ handlers[i].behaviour = "throw"
          /\ Matches(handlers[j], busOp.types)
          /\ ~InSeq(handlers[j].token, invoked)

\* C20: during a publish a candidate handler is invoked iff its arity and
\* signature equal those of the published arguments; every other candidate
\* is counted as a failure, and totalSubscribers = successfulExecutions +
\* failedExecutions = the number of handlers of the key in the mode
C20_InvokedIffMatchesAndCounted ==
    [][\A k \in BusKeys, t \in BusTypes, mode \in {"Multicast", "Unicast"} :
          PublishCall(k, mode, t) =>
              LET handlers == Candidates(Bus, k, mode)
                  result == busOp'.result
              IN /\ \A i \in 1..Len(handlers) :
                       InSeq(handlers[i].token, invoked') <=> Matches(handlers[i], t)
                 /\ result.failedExecutions =
                       Len(SelectSeq(handlers, LAMBDA h : ~Matches(h, t)))
                 /\ result.totalSubscribers =
                       result.successfulExecutions + result.failedExecutions
                 /\ result.totalSubscribers = Len(handlers)]_vars

\* a publish that ended with what a handler threw: two handlers were
\* subscribed, one was invoked, and no count of the two reached the caller
C20_CountsLost ==
    /\ busOp.op = "publish"
    /\ ~busOp.returned
    /\ busOp.countBefore = 2
    /\ Len(invoked) = 1
    /\ busOp.result.totalSubscribers = 0
    /\ \A i \in 1..2 : Matches(Candidates(Bus, busOp.eventName, busOp.mode)[i], busOp.types)

(***************************************************************************)
(* The success flag of a publish.                                          *)
(***************************************************************************)
\* C21: the success flag of the result of a publish is true iff at least
\* one handler was invoked successfully in that publish; a publish to a key
\* without a handler in the requested mode returns success = false, throws
\* nothing and invokes no handler
C21_SuccessIffHandlerRan ==
    busOp.op = "publish" =>
        /\ busOp.returned =>
              (busOp.result.success <=> Returned(invoked, busOp.returned) # <<>>)
        /\ busOp.countBefore = 0 =>
              /\ busOp.returned
              /\ ~busOp.result.success
              /\ invoked = <<>>

\* a multicast publish on a key that holds only a unicast handler
C21_NoHandlerInMode ==
    /\ busOp.op = "publish"
    /\ busOp.mode = "Multicast"
    /\ busOp.countBefore = 0
    /\ busOp.eventName \in DOMAIN unicastEventHandlers
    /\ Matches(unicastEventHandlers[busOp.eventName], busOp.types)
    /\ busOp.returned
    /\ ~busOp.result.success
    /\ invoked = <<>>

(***************************************************************************)
(* Unsubscribe.                                                            *)
(***************************************************************************)
\* the EventIDs of the handlers the maps b hold, in either mode
LiveTokens(b) ==
    {b.uh[k].token : k \in DOMAIN b.uh}
        \cup UNION {{b.mh[k][i].token : i \in 1..Len(b.mh[k])} : k \in DOMAIN b.mh}

\* the maps b without the handler of token and its records
OthersOf(b, token) ==
    [mh |-> [k \in DOMAIN b.mh |-> SelectSeq(b.mh[k], LAMBDA h : h.token # token)],
     uh |-> [k \in {x \in DOMAIN b.uh : b.uh[x].token # token} |-> b.uh[k]],
     mo |-> [k \in DOMAIN b.mo |-> SelectSeq(b.mo[k], LAMBDA t : t # token)],
     uo |-> [k \in {x \in DOMAIN b.uo : b.uo[x] # token} |-> b.uo[k]]]

\* the maps b without the keys that hold nothing
NonEmpty(b) ==
    [mh |-> [k \in {x \in DOMAIN b.mh : b.mh[x] # <<>>} |-> b.mh[k]],
     uh |-> b.uh,
     mo |-> [k \in {x \in DOMAIN b.mo : b.mo[x] # <<>>} |-> b.mo[k]],
     uo |-> b.uo]

\* C22: Unsubscribe(h) returns true exactly when h is a live subscription;
\* afterwards the handler is never invoked again; an Unsubscribe of a handle
\* that was unsubscribed before, or of the handle of a unicast handler that
\* was evicted, returns false and leaves every subscription as it was
C22_Unsubscribe ==
    [][/\ \A token \in 1..MaxTokens :
             UnsubscribeCall(token) =>
                /\ busOp'.result.success <=> token \in LiveTokens(Bus)
                /\ token \notin LiveTokens(Bus')
                /\ NonEmpty(OthersOf(Bus', token)) = NonEmpty(OthersOf(Bus, token))
                /\ token \notin LiveTokens(Bus) => Bus' = Bus
       /\ \A t \in gone' : ~InSeq(t, invoked')]_vars

\* an Unsubscribe of a handle that is no longer live returned false while the
\* unicast handler that was subscribed after it is still in its slot
C22_DeadHandleRefused ==
    /\ busOp.op = "unsubscribe"
    /\ busOp.token = 1
    /\ ~busOp.result.success
    /\ \E k \in DOMAIN unicastEventHandlers : unicastEventHandlers[k].token = 2
    /\ 2 \in DOMAIN tokenToEventNameMap

(***************************************************************************)
(* Handles: registration and removal.                                      *)
(***************************************************************************)
\* the handler types registered where handles are removed
HandleTypes == {"SequentialProcessor", "FinalProcessor"}

\* the handles a caller may hold for the key
Handles == {ActionHandle(id, "k1", type) : id \in 1..MaxHandlers, type \in HandleTypes}

\* handlers of two signatures that return, registered and removed
NextHandles ==
    \/ \E a \in SigHandlerArgs, type \in HandleTypes :
          /\ Registered < MaxHandlers
          /\ AddHandlerDetailed("k1", a, type, 0, "ok")
    \/ \E handle \in Handles : RemoveHandler(handle)
    \/ \E a \in SigHandlerArgs : Execute("k1", [i \in 1..Len(a) |->
                                     [base |-> "int", const |-> FALSE, cat |-> "rvalue"]])

SpecHandles == Init /\ [][NextHandles]_vars

\* the handles of the handlers a wrapper's container holds
HandlesOf(w) ==
    LET hs(v) == {v[i].handle : i \in 1..Len(v)}
    IN hs(w.validators) \cup hs(w.sequentialProcessors) \cup hs(w.finalProcessor)
       \cup hs(w.triggerListeners) \cup hs(w.validationListeners)
       \cup hs(w.completionListeners)

\* the handles of all handlers registered in acts
RegisteredHandles(acts) ==
    UNION {UNION {HandlesOf(acts[k][i]) : i \in 1..Len(acts[k])} : k \in DOMAIN acts}

\* the wrappers of acts that hold a handler, each without the handler of handle
WithoutHandle(acts, handle) ==
    [k \in DOMAIN acts |->
        SelectSeq([i \in 1..Len(acts[k]) |-> ContainerRemoveHandler(acts[k][i], handle)[1]],
                  LAMBDA w : GetTotalHandlers(w) # 0)]

\* C23: RemoveHandler(h) returns true exactly when h identifies a handler
\* that is registered; after it returned true the handler is not invoked by
\* a later Execute while the other handlers of the key are; RemoveHandler on
\* an unknown, replaced or already removed handle returns false and changes
\* nothing
C23_RemoveHandler ==
    [][/\ \A handle \in Handles :
             RemoveHandler(handle) =>
                /\ actOp'.ok <=> handle \in RegisteredHandles(actions)
                /\ handle \notin RegisteredHandles(actions')
                /\ WithoutHandle(actions', handle) = WithoutHandle(actions, handle)
                /\ ~actOp'.ok => UNCHANGED <<actions, handleToActionMap>>
       /\ (actOp'.op = "execute" /\ actOp'.result.success) =>
             \E i \in 1..Len(actions[actOp'.actionKey]) :
                /\ allowOverload => i \in SameSignature(actOp'.actionKey, actOp'.types)
                /\ {trace'[n].id : n \in DOMAIN trace'} = HandleIds(actions[actOp'.actionKey][i])
                /\ Len(trace') = Cardinality(HandleIds(actions[actOp'.actionKey][i]))]_vars

\* RemoveHandler with the handle of a final processor that a later
\* SetFinalProcessor replaced: it returned false and the new one is in place
C23_ReplacedHandleRefused ==
    /\ actOp.op = "remove"
    /\ ~actOp.ok
    /\ actOp.id = 1
    /\ ActionHandle(1, "k1", "FinalProcessor") \in DOMAIN handleToActionMap
    /\ ActionHandle(1, "k1", "FinalProcessor") \notin RegisteredHandles(actions)
    /\ ActionHandle(2, "k1", "FinalProcessor") \in RegisteredHandles(actions)

(***************************************************************************)
(* Handles over Clear.                                                     *)
(***************************************************************************)
\* sequential processors of two signatures registered, removed and cleared;
\* in non-overload mode a registration of the second signature fails
NextClear ==
    \/ \E a \in SigHandlerArgs :
          /\ Registered < MaxHandlers
          /\ AddHandlerDetailed("k1", a, "SequentialProcessor", 0, "ok")
    \/ \E id \in 1..MaxHandlers :
          RemoveHandler(ActionHandle(id, "k1", "SequentialProcessor"))
    \/ Clear

SpecClear == Init /\ [][NextClear]_vars

\* the handle the registration recorded in actOp returned
ReturnedHandle == {h \in DOMAIN handleToActionMap : h.id = actOp.id}

\* C24: within one ActionSystem no two registrations return equal handles
\* and no returned handle has id 0, over any sequence of registrations,
\* failed registrations, removals and Clear calls
C24_HandlesUnique ==
    (actOp.op = "add" /\ actOp.ok) =>
        /\ actOp.id # 0
        /\ ReturnedHandle \cap actOp.issued = {}

\* after a Clear a registration returned a handle equal to one that an
\* earlier registration returned
C24_HandleIssuedAgain ==
    /\ actOp.op = "add"
    /\ actOp.ok
    /\ actOp.id = 1
    /\ ActionHandle(1, "k1", "SequentialProcessor") \in actOp.issued
    /\ ActionHandle(1, "k1", "SequentialProcessor") \in RegisteredHandles(actions)

(***************************************************************************)
(* Listener granularities and the order of a dispatch.                     *)
(***************************************************************************)
\* the path string of the parent of path, as findListeners builds it
ParentPath(path) == joinParts(Front(splitPath(path)))

\* C25: a listener registered with (p, DirectChild, K) fires for an emitted
\* event iff the kind of the event is K and the parent of the path of the
\* event is p; it fires neither for p itself nor for deeper descendants of p
C25_DirectChildFires ==
    \A i \in DOMAIN events : \A l \in Listeners :
        l.granularity = "DIRECT_CHILD" =>
            (Times(l.id, i) >= 1 <=>
                /\ l.eventType = events[i].type
                /\ splitPath(events[i].path) # <<>>
                /\ ParentPath(events[i].path) = l.path)

\* a DirectChild listener at "" that was passed over by an event at a/b, and
\* one at "a" that the event went to
C25_GrandchildPassedOver ==
    /\ Len(events) = 1
    /\ splitPath(events[1].path) = << <<"a">>, <<"b">> >>
    /\ \E l, m \in Listeners :
          /\ l.granularity = "DIRECT_CHILD" /\ m.granularity = "DIRECT_CHILD"
          /\ l.eventType = events[1].type /\ m.eventType = events[1].type
          /\ l.path = <<>> /\ m.path = <<"a">>
          /\ Times(l.id, 1) = 0
          /\ Times(m.id, 1) = 1

\* C26: a listener registered with (p, Node, K) fires for an emitted event
\* iff the kind of the event is K and the path of the event is p
C26_NodeFires ==
    \A i \in DOMAIN events : \A l \in Listeners :
        l.granularity = "NODE" =>
            (Times(l.id, i) >= 1 <=>
                /\ l.eventType = events[i].type
                /\ events[i].path = l.path)

\* an event at a went to the Node listener at "a" and passed over the Node
\* listener at "" of the same kind
C26_NodeAtPathOnly ==
    /\ Len(events) = 1
    /\ events[1].path = <<"a">>
    /\ \E l, m \in Listeners :
          /\ l.granularity = "NODE" /\ m.granularity = "NODE"
          /\ l.eventType = events[1].type /\ m.eventType = events[1].type
          /\ l.path = <<"a">> /\ m.path = <<>>
          /\ Times(l.id, 1) = 1
          /\ Times(m.id, 1) = 0

\* C27: in every dispatch each listener is invoked at most once, also when
\* its trie node is reached by more than one rule of findListeners
C27_AtMostOncePerDispatch ==
    \A i \in DOMAIN events : \A l \in Listeners : Times(l.id, i) <= 1

\* a Subtree listener at "a" and an event at a: the listener passes the test
\* of the exact node and the test of the ancestor walk, and got the event once
C27_TwoRulesOneCall ==
    /\ Len(events) = 1
    /\ events[1].path = <<"a">>
    /\ \E l \in Listeners :
          /\ l.granularity = "ALL_CHILDREN" /\ l.path = <<"a">>
          /\ l.eventType = events[1].type
          /\ Times(l.id, 1) = 1

\* the place the claim of C28 gives a listener in a dispatch
OrderRank(l) ==
    CASE l.granularity = "ALL_CHILDREN" -> 1
      [] l.granularity = "DIRECT_CHILD" -> 2
      [] OTHER -> 3

\* the listener with the id
ListenerOf(id) == CHOOSE l \in Listeners : l.id = id

\* C28: within one dispatch the listeners are invoked in the order Subtree
\* listeners at ancestors, DirectChild listeners at the parent, Node
\* listeners at the path itself
C28_DispatchOrder ==
    \A j, k \in DOMAIN delivered :
        (j < k /\ delivered[j][2] = delivered[k][2]) =>
            OrderRank(ListenerOf(delivered[j][1])) <= OrderRank(ListenerOf(delivered[k][1]))

\* a Node listener at "a" was invoked before a DirectChild listener at ""
C28_NodeBeforeDirectChild ==
    /\ Len(delivered) = 2
    /\ ListenerOf(delivered[1][1]).granularity = "NODE"
    /\ ListenerOf(delivered[1][1]).path = <<"a">>
    /\ ListenerOf(delivered[2][1]).granularity = "DIRECT_CHILD"
    /\ ListenerOf(delivered[2][1]).path = <<>>

(***************************************************************************)
(* The shape of the tree in memory.                                        *)
(***************************************************************************)
\* set, setNode, remove and move on the nodes in memory, while the process runs
NextHeap ==
    \/ \E p \in FrameOpPaths :
          /\ ~heap.fault
          /\ HeapSetValue("INT", p)
          /\ Cardinality(DOMAIN heap'.cells) <= MaxCells
    \/ \E p \in FrameOpPaths :
          /\ ~heap.fault
          /\ HeapSetNode("STRING", p)
          /\ Cardinality(DOMAIN heap'.cells) <= MaxCells
    \/ \E p \in FrameOpPaths : ~heap.fault /\ HeapRemoveNode(p)
    \/ \E p, q \in FrameOpPaths :
          /\ ~heap.fault
          /\ HeapMoveNode(p, q)
          /\ Cardinality(DOMAIN heap'.cells) <= MaxCells

SpecHeap == InitFrame /\ [][NextHeap]_vars

\* the places that hold a pointer to the node at address p: <<parent, name>>
ParentsOf(cells, p) ==
    {pn \in {<<a, n>> : a \in DOMAIN cells, n \in {<<"a">>, <<"b">>}} :
        pn[2] \in DOMAIN cells[pn[1]].children /\ cells[pn[1]].children[pn[2]] = p}

RECURSIVE Reachable(_, _)
\* the addresses reached from the addresses of seen through children
Reachable(cells, seen) ==
    LET next == seen \cup
                UNION {{cells[a].children[n] : n \in DOMAIN cells[a].children} :
                          a \in seen \cap DOMAIN cells}
    IN IF next = seen THEN seen ELSE Reachable(cells, next)

NextTrySet ==
    \/ \E p \in FrameOpPaths, v \in Values : setInt(p, v)
    \/ \E p \in FrameOpPaths, v \in Values : setString(p, v)
    \/ \E p \in FrameOpPaths : removeNode(p)
    \/ \E p \in FrameOpPaths, v \in Values : TrySetIntValue(p, v)
    \/ \E p \in FrameOpPaths, v \in Values : TrySetStringValue(p, v)

SpecTrySet == InitFrame /\ [][NextTrySet]_vars

\* type and value of every node of the tree r but the one at path
ContentsBut(r, path) == { c \in Contents(r, <<>>) : c[1] # splitPath(path) }

\* C30: TrySet<K>(p, v) returns true exactly when p held a node of kind K
\* when it was called; then the node holds v, one UPDATE event for p is
\* emitted and every other node is as it was; when p held nothing or a node
\* of another kind, the tree is unchanged and no event is emitted.
C30_TrySet ==
    [][treeOp'.op = "trySet" =>
          LET p == treeOp'.path
              K == treeOp'.kind
              had == getNodeType(root, p) = K
          IN /\ treeOp'.ok <=> had
             /\ ~had => /\ root' = root
                        /\ events' = <<>>
                        /\ delivered' = <<>>
             /\ had => /\ getTypedValue(root', p, K) = <<TRUE, treeOp'.value>>
                       /\ ContentsBut(root', p) = ContentsBut(root, p)
                       /\ Len(events') = 1
                       /\ events'[1].type = "UPDATE"
                       /\ events'[1].path = p
                       /\ events'[1].nodeType = K]_vars

\* TrySet<K> was refused on a path that holds a node of another kind, which
\* is still there
C30_RefusedOnOtherKind ==
    /\ treeOp.op = "trySet" /\ ~treeOp.ok
    /\ treeOp.prior \notin {"EMPTY", treeOp.kind}
    /\ getNodeType(root, treeOp.path) = treeOp.prior

\* listeners on "a", sets and removes on "a" and "a/b", events switched off
\* and on
NextEnable ==
    \/ \E g \in {"NODE", "ALL_CHILDREN"}, t \in {"ADD", "UPDATE", "REMOVE"} :
          addEventListener(<<"a">>, g, t)
    \/ \E enabled \in BOOLEAN : setEventEnabled(enabled)
    \/ \E p \in { <<"a">>, <<"a", "/", "b">> }, v \in Values : setInt(p, v)
    \/ \E p \in { <<"a">>, <<"a", "/", "b">> } : removeNode(p)

SpecEnable == InitFrame /\ [][NextEnable]_vars

\* the listeners of kind type whose rule covers an event at path: a listener
\* on the path itself, or a Subtree listener on an ancestor of it
Covering(path, type) ==
    { l \in Listeners :
        /\ l.eventType = type
        /\ \/ splitPath(l.path) = splitPath(path)
           \/ /\ l.granularity = "ALL_CHILDREN"
              /\ IsProperPrefix(splitPath(l.path), splitPath(path)) }

\* C31: a set or a remove made while events are disabled takes effect in the
\* tree (the value is stored, the node is gone) and invokes no listener; made
\* while events are enabled it invokes every listener covering its path once,
\* with the event of this mutation alone; switching events on or off
\* invokes nothing, so no event of the disabled period comes late.
C31_DisabledSuppressesDelivery ==
    /\ (treeOp.op = "set" /\ treeOp.ok) =>
           getTypedValue(root, treeOp.path, treeOp.kind) = <<TRUE, treeOp.value>>
    /\ (treeOp.op = "remove" /\ treeOp.ok) => ~hasNode(root, treeOp.path)
    /\ (treeOp.op \in {"set", "remove"} /\ ~enableEvents) =>
           events = <<>> /\ delivered = <<>>
    /\ (treeOp.op \in {"set", "remove"} /\ treeOp.ok /\ enableEvents) =>
           /\ Len(events) = 1
           /\ events[1].path = treeOp.path
           /\ \A l \in Covering(treeOp.path, events[1].type) : Times(l.id, 1) = 1
           /\ \A j \in DOMAIN delivered : delivered[j][2] = 1
    /\ treeOp.op = "setEventEnabled" => events = <<>> /\ delivered = <<>>

\* a value was stored at "a" while events were disabled and a listener for
\* the event of this set is registered on "a"; it was not invoked
C31_SetWhileDisabled ==
    /\ treeOp.op = "set" /\ treeOp.ok /\ ~enableEvents
    /\ treeOp.path = <<"a">>
    /\ \E l \in Listeners :
          /\ l.eventType = (IF treeOp.prior = "EMPTY" THEN "ADD" ELSE "UPDATE")
          /\ splitPath(l.path) = <<<<"a">>>>
    /\ getTypedValue(root, treeOp.path, "INT") = <<TRUE, treeOp.value>>
    /\ delivered = <<>>

\* the wrappers of the key, in acts, that hold the handler of handle
HoldersOf(acts, actionKey, handle) ==
    IF actionKey \notin DOMAIN acts THEN {}
    ELSE {i \in 1..Len(acts[actionKey]) : handle \in HandlesOf(acts[actionKey][i])}

\* the signatures that have a wrapper under the key in acts
SignaturesOf(acts, actionKey) ==
    IF actionKey \notin DOMAIN acts THEN {}
    ELSE {acts[actionKey][i].argTypes : i \in 1..Len(acts[actionKey])}

\* C32: in overload mode, a RemoveHandler that removes the only handler of a
\* wrapper erases that wrapper: the variant count of the key goes down by one,
\* the signature is gone from the key and the wrappers of the other
\* signatures are as they were; an Execute on the key with a signature that
\* has no wrapper returns success = false and invokes nothing, one with a
\* signature that has a wrapper runs that wrapper's handlers.
C32_LastHandlerPrunes ==
    [][allowOverload =>
          /\ \A handle \in Handles :
                (RemoveHandler(handle) /\ actOp'.ok) =>
                   \A i \in HoldersOf(actions, "k1", handle) :
                      GetTotalHandlers(actions["k1"][i]) = 1 =>
                         /\ GetActionVariantCount(actions', "k1")
                               = GetActionVariantCount(actions, "k1") - 1
                         /\ SignaturesOf(actions', "k1")
                               = SignaturesOf(actions, "k1") \ {actions["k1"][i].argTypes}
                         /\ actions'["k1"]
                               = SelectSeq(actions["k1"],
                                           LAMBDA w : handle \notin HandlesOf(w))
          /\ (actOp'.op = "execute" /\ "k1" \in DOMAIN actions) =>
                IF actOp'.types \in SignaturesOf(actions, "k1")
                THEN actOp'.result.success /\ trace' # <<>>
                ELSE ~actOp'.result.success /\ trace' = <<>>]_vars

\* in overload mode two final processors were set under the key and both
\* are in place, so they are of two signatures; the one was removed, its
\* wrapper is gone and the wrapper of the other is left
C32_PrunedBesideOther ==
    /\ allowOverload
    /\ actOp.op = "remove" /\ actOp.ok
    /\ nextHandleId = 3
    /\ \A h \in actOp.issued : h.type = "FinalProcessor"
    /\ \E h \in actOp.issued : h.id = actOp.id /\ h \notin RegisteredHandles(actions)
    /\ \E h \in actOp.issued : h.id # actOp.id /\ h \in RegisteredHandles(actions)
    /\ GetActionVariantCount(actions, "k1") = 1

\* what the listeners of the new specification do when called
ListenerBehaviours == {"ok", "throw", "throwOther"}

\* listeners of the three stages that return or throw, and a sequential
\* processor that returns, registered for one action and executed
NextListenerThrow ==
    \/ \E type \in ListenerTypes, b \in ListenerBehaviours :
          /\ Registered < MaxHandlers
          /\ AddHandlerDetailed("k1", <<IntT>>, type, 0, b)
    \/ /\ Registered < MaxHandlers
       /\ AddHandlerDetailed("k1", <<IntT>>, "SequentialProcessor", 0, "ok")
    \/ Execute("k1", <<[base |-> "int", const |-> FALSE, cat |-> "rvalue"]>>)

SpecListenerThrow == InitFrame /\ [][NextListenerThrow]_vars

\* the listeners of the wrapper w that throw
Throwing(w) ==
    LET thr(v) == {i \in 1..Len(v) : v[i].behaviour # "ok"}
    IN thr(w.triggerListeners) \cup thr(w.validationListeners)
       \cup thr(w.completionListeners)

\* C33: an Execute on a container whose validators accept and whose
\* processors return, returns a result with success = true after every
\* handler of the container was called once, whatever its trigger,
\* validation and completion listeners throw; when one of them throws the
\* result carries an error message.
C33_ListenerThrowContinues ==
    (actOp.op = "execute" /\ actOp.ok) =>
        /\ actOp.returned
        /\ actOp.result.success
        /\ Len(trace) = GetTotalHandlers(actions["k1"][1])
        /\ {trace[n].id : n \in DOMAIN trace} = HandleIds(actions["k1"][1])
        /\ Throwing(actions["k1"][1]) # {} => actOp.result.errorMessage # ""

\* a trigger listener threw something that is not a std::exception: Execute
\* was left by the exception, the sequential processor registered was not
\* called
C33_ListenerExceptionEscaped ==
    /\ actOp.op = "execute" /\ actOp.ok
    /\ ~actOp.returned
    /\ Len(trace) = 1
    /\ trace[1].stage = "TriggerListener"
    /\ trace[1].behaviour = "throwOther"
    /\ actions["k1"][1].sequentialProcessors # <<>>

\* the parameter const std::string&
ConstStringRef == [base |-> "string", const |-> TRUE, ref |-> "&"]

\* arguments of Execute: std::string("hello"), a std::string variable, 42
ConstRefExecuteArgs ==
    { <<[base |-> "string", const |-> FALSE, cat |-> "rvalue"]>>,
      <<[base |-> "string", const |-> FALSE, cat |-> "lvalue"]>>,
      <<[base |-> "int", const |-> FALSE, cat |-> "rvalue"]>> }

\* processors taking (int) and (const std::string&) registered under one key,
\* removed, and Executes with a string temporary, a string variable and an int
NextConstRef ==
    \/ \E a \in { <<IntT>>, <<ConstStringRef>> } :
          /\ Registered < MaxHandlers
          /\ AddHandlerDetailed("k1", a, "SequentialProcessor", 0, "ok")
    \/ \E id \in 1..MaxHandlers :
          RemoveHandler(ActionHandle(id, "k1", "SequentialProcessor"))
    \/ \E a \in ConstRefExecuteArgs : Execute("k1", a)

SpecConstRef == Init /\ [][NextConstRef]_vars

\* the wrappers of the key whose handlers take (const std::string&)
ConstRefWrappers ==
    IF "k1" \notin DOMAIN actions THEN {}
    ELSE {i \in 1..Len(actions["k1"]) : actions["k1"][i].Args = <<ConstStringRef>>}

\* C34: in overload mode an Execute with a std::string temporary on a key
\* that holds handlers taking const std::string& returns success = true and
\* has called each of these handlers once, and no other handler.
C34_ConstRefTakesTemporary ==
    (/\ allowOverload
     /\ actOp.op = "execute"
     /\ actOp.types = << <<"string", "">> >>
     /\ ConstRefWrappers # {})
    => /\ actOp.result.success
       /\ \E i \in ConstRefWrappers :
             /\ {trace[n].id : n \in DOMAIN trace} = HandleIds(actions["k1"][i])
             /\ Len(trace) = Cardinality(HandleIds(actions["k1"][i]))

\* in overload mode Execute with a std::string temporary found no wrapper on
\* a key that holds a handler taking const std::string&, and called nothing
C34_TemporaryFindsNoHandler ==
    /\ allowOverload
    /\ actOp.op = "execute"
    /\ actOp.types = << <<"string", "">> >>
    /\ ConstRefWrappers # {}
    /\ ~actOp.ok
    /\ ~actOp.result.success
    /\ trace = <<>>

\* threads that intern strings, each call a sequence of steps of its thread
NextPool ==
    \/ \E t \in Threads, str \in CStrings : getStringId(t, str)
    \/ \E t \in Threads : Lock(t)
    \/ \E t \in Threads : Find(t)
    \/ \E t \in Threads : Insert(t)

SpecPool == InitFrame /\ [][NextPool]_vars

\* C35: of the ids returned by the interning calls of all threads, two are
\* equal exactly when the strings interned are equal; the id -> string
\* vector only grows at its end, slot i holds the string whose id is i, and
\* an id returned stays the id of its string.
C35_InternIsInjective ==
    /\ \A x, y \in interned : (x[1] = y[1]) <=> (x[2] = y[2])
    /\ \A x \in interned :
          /\ x[1] \in DOMAIN pool.stringToId /\ pool.stringToId[x[1]] = x[2]
          /\ x[2] + 1 \in DOMAIN pool.idToString /\ pool.idToString[x[2] + 1] = x[1]
    /\ Len(pool.idToString) = pool.nextId

\* after a first string was interned, thread 1 holds the mutex and is about
\* to give a second string its id while thread 2, called with the same
\* string, waits for the mutex
C35_TwoThreadsOneString ==
    /\ interned # {}
    /\ pool.mutex = 1
    /\ threads[1].pc = "insert"
    /\ threads[2].pc = "lock"
    /\ threads[2].str = threads[1].s

\* the process has ended by a memory fault in Publish
BusFaulted == busOp.op = "publishRemoving" /\ ~busOp.returned

\* listeners on "a" and subscribers of one key, sets and publishes, among
\* them the ones in which a callback removes a handler that comes after it
NextReentrant ==
    \/ \E t \in {"ADD", "UPDATE"} :
          ~BusFaulted /\ addEventListener(<<"a">>, "NODE", t)
    \/ \E v \in Values : ~BusFaulted /\ setInt(<<"a">>, v)
    \/ ~BusFaulted /\ removeNode(<<"a">>)
    \/ \E v \in Values, remover, removed \in 1..MaxListeners :
          ~BusFaulted /\ setIntRemoving(<<"a">>, v, remover, removed)
    \/ \E k \in BusKeys : ~BusFaulted /\ Subscribe(k, <<"int">>, FALSE, "ok")
    \/ \E k \in BusKeys : ~BusFaulted /\ Publish(k, <<"int">>)
    \/ \E k \in BusKeys, remover, removed \in 1..MaxTokens, stale \in BOOLEAN :
          ~BusFaulted /\ PublishRemoving(k, <<"int">>, remover, removed, stale)

SpecReentrant == InitFrame /\ [][NextReentrant]_vars

\* C36: a handler that a callback of the same dispatch has removed before
\* its turn is not invoked in this dispatch, and the dispatch goes on without
\* fault to the handlers that remain: no listener invoked by the last tree
\* call is one that is no longer registered, and a Publish in which a
\* handler unsubscribed a later one returns, having invoked every handler
\* still subscribed and not the one unsubscribed.
C36_RemovedNotInvoked ==
    /\ \A k \in DOMAIN delivered : delivered[k][1] \in DOMAIN listenerPaths
    /\ busOp.op = "publishRemoving" =>
          /\ busOp.returned
          /\ ~InSeq(busOp.token, invoked)
          /\ \A h \in {multicastEventHandlers[busOp.eventName][i] :
                         i \in DOMAIN multicastEventHandlers[busOp.eventName]} :
                InSeq(h.token, invoked)

\* a listener on "a" removed the listener registered after it, which was
\* invoked all the same
C36_RemovedListenerInvoked ==
    /\ treeOp.op = "set"
    /\ Len(delivered) = 2
    /\ delivered[1][1] \in DOMAIN listenerPaths
    /\ delivered[2][1] \notin DOMAIN listenerPaths

\* a subscriber unsubscribed the subscriber after it and Publish ended by
\* a memory fault
C36_PublishFaulted ==
    /\ BusFaulted
    /\ busOp.token \notin DOMAIN tokenToEventNameMap
    /\ invoked # <<>>

\* the node at path in cells, nullptr when there is none
HeapNodeAt(cells, path) ==
    LET pn == HeapGetParentAndNameNoCreate(cells, path)
    IN IF pn[1] = NullPtr THEN NullPtr ELSE HeapGetChild(cells, pn[1], pn[2])

\* C37: a setNode(p, n) made on a valid path returns without a memory fault,
\* has handed no node to delete twice, and leaves at p a node of the kind of
\* n that is allocated.
C37_DisplacedDeletedOnce ==
    (heap.op = "setNode" /\ heap.ok) =>
        /\ ~heap.fault
        /\ \A i, j \in DOMAIN heap.deleted : i # j => heap.deleted[i] # heap.deleted[j]
        /\ HeapNodeAt(heap.cells, heap.path) \in DOMAIN heap.cells
        /\ heap.cells[HeapNodeAt(heap.cells, heap.path)].type = "STRING"

\* setNode found a node at the path, the node was handed to delete twice and
\* the process ended by a memory fault
C37_DisplacedDeletedTwice ==
    /\ heap.op = "setNode" /\ heap.ok
    /\ Len(heap.deleted) = 2
    /\ heap.deleted[1] = heap.deleted[2]
    /\ heap.fault

\* sequential processors and final processors that return or throw a
\* std::exception, registered for one action and executed
NextProcessors ==
    \/ \E type \in {"SequentialProcessor", "FinalProcessor"}, b \in {"ok", "throw"} :
          /\ Registered < MaxHandlers
          /\ AddHandlerDetailed("k1", <<IntT>>, type, 0, b)
    \/ Execute("k1", <<[base |-> "int", const |-> FALSE, cat |-> "rvalue"]>>)

SpecProcessors == InitFrame /\ [][NextProcessors]_vars

\* C38: the ActionResult of an Execute that came to the processors and
\* returned has totalProcessors equal to the number of sequential processors
\* of the container, plus one when a final processor is set, whether the
\* processors returned or one of them threw.
C38_TotalProcessors ==
    (actOp.op = "execute" /\ actOp.ok /\ actOp.returned) =>
        actOp.result.totalProcessors =
            Len(actions["k1"][1].sequentialProcessors) + Len(actions["k1"][1].finalProcessor)

\* a sequential processor threw on a container that has a final processor:
\* the result counts the sequential processors alone
C38_FinalNotCounted ==
    /\ actOp.op = "execute" /\ actOp.ok /\ actOp.returned
    /\ ~actOp.result.success
    /\ actions["k1"][1].finalProcessor # <<>>
    /\ trace # <<>>
    /\ trace[Len(trace)].stage = "SequentialProcessor"
    /\ actOp.result.totalProcessors = Len(actions["k1"][1].sequentialProcessors)

\* two spellings of one path: "a/b" and "a//b"
Spellings == { <<"a", "/", "b">>, <<"a", "/", "/", "b">> }

\* NODE listeners registered under, and sets and removes made through, the
\* two spellings
NextSpelling ==
    \/ \E p \in Spellings, t \in {"ADD", "UPDATE"} : addEventListener(p, "NODE", t)
    \/ \E p \in Spellings, v \in Values : setInt(p, v)
    \/ \E p \in Spellings : removeNode(p)

SpecSpelling == InitFrame /\ [][NextSpelling]_vars

\* C39: path strings that split into the same parts are interchangeable:
\* what a set through one spelling stored is read through every spelling,
\* what a remove through one spelling took away is gone under every
\* spelling, and a NODE listener registered under one spelling is invoked
\* once for every event of its kind whose path is a spelling of its path.
C39_SpellingsInterchangeable ==
    /\ (treeOp.op = "set" /\ treeOp.ok) =>
          \A q \in Spellings :
             splitPath(q) = splitPath(treeOp.path) =>
                getTypedValue(root, q, treeOp.kind) = <<TRUE, treeOp.value>>
    /\ (treeOp.op = "remove" /\ treeOp.ok) =>
          \A q \in Spellings :
             splitPath(q) = splitPath(treeOp.path) => ~hasNode(root, q)
    /\ \A i \in DOMAIN events : \A l \in Listeners :
          (/\ l.granularity = "NODE"
           /\ l.eventType = events[i].type
           /\ splitPath(l.path) = splitPath(events[i].path))
          => Times(l.id, i) = 1

\* a value was set through "a/b" where nothing was; the NODE listener for
\* ADD registered under "a//b" was not invoked, the value is read through
\* "a//b"
C39_OtherSpellingNotNotified ==
    /\ treeOp.op = "set" /\ treeOp.ok
    /\ treeOp.path = <<"a", "/", "b">>
    /\ Len(events) = 1 /\ events[1].type = "ADD"
    /\ getTypedValue(root, <<"a", "/", "/", "b">>, "INT") = <<TRUE, treeOp.value>>
    /\ \E l \in Listeners :
          /\ l.path = <<"a", "/", "/", "b">>
          /\ l.granularity = "NODE"
          /\ l.eventType = "ADD"
          /\ Times(l.id, 1) = 0

\* a subscription that is no longer there: it was unsubscribed or evicted by a
\* later unicast subscription of its key, or it was made with once = true and
\* a handler call of it has returned
Ended(token) == token \in gone \/ (token \in DOMAIN calls /\ calls[token] >= 1)

\* the live unicast subscriptions of a key: the last one made, unless ended
LiveUnicast(k) == {t \in {lastUnicast[k]} : t # 0 /\ ~Ended(t)}

\* the live multicast subscriptions: every subscription is on the one key of
\* BusKeys, and a unicast subscription is either the last of its key or in gone
LiveMulticast(k) ==
    {t \in 1..(nextToken - 1) : ~Ended(t) /\ \A j \in BusKeys : t # lastUnicast[j]}

\* C40: after any sequence of Subscribe, SubscribeUnicast, Unsubscribe and
\* Publish calls, GetSubscriberCount(k) is the number of live multicast
\* subscriptions on k, GetUnicastSubscriberCount(k) the number of live unicast
\* subscriptions on k (0 or 1), and HasEvent(k) is true exactly when one of
\* the two is not zero.
C40_CountsAreLiveSubscriptions ==
    \A k \in BusKeys :
       /\ GetSubscriberCount(Bus, k) = Cardinality(LiveMulticast(k))
       /\ GetUnicastSubscriberCount(Bus, k) = Cardinality(LiveUnicast(k))
       /\ GetUnicastSubscriberCount(Bus, k) \in {0, 1}
       /\ HasEvent(Bus, k) <=>
             (GetSubscriberCount(Bus, k) # 0 \/ GetUnicastSubscriberCount(Bus, k) # 0)

\* a publish that ended with what its second handler threw, after the call of
\* a once-subscription had returned: that subscription is still counted
C40_EndedOnceStillCounted ==
    /\ busOp.op = "publish" /\ busOp.mode = "Multicast"
    /\ ~busOp.returned
    /\ Len(invoked) = 2
    /\ invoked[1] \in DOMAIN calls /\ calls[invoked[1]] = 1
    /\ GetSubscriberCount(Bus, busOp.eventName) = 2
    /\ Cardinality(LiveMulticast(busOp.eventName)) = 1

====
